---- MODULE Spec2Model ----
(***************************************************************************)
(* State-machine model of the document-archive MCP server core:            *)
(*   - ReadinessManager (src/utils/readiness.ts)                           *)
(*   - EmbeddingService, LanceDBConnector, LanceDBService,                 *)
(*     DocumentProcessor readiness gates                                   *)
(*   - DirectoryWatcher and its lodash-debounced event handlers            *)
(* Every await of the TypeScript code is a step boundary; the synchronous  *)
(* code between two awaits is one atomic action.                           *)
(***************************************************************************)
EXTENDS Integers, Sequences, FiniteSets, TLC

\* ---------------------------------------------------------------- bounds
MaxAttempts == 2
\* initialize() calls explored together with the public service operations
MaxCallAttempts == 1
\* initialize() calls explored together with waitForReady
MaxWaitAttempts == 2
\* largest waitForReady timeout, in poll intervals of 100 ms
MaxTimeout == 2
\* filesystem events the watcher reports in one run
MaxEvents == 3
\* watchDirectory / stopWatching calls made by callers in one run
MaxDirCalls == 3
\* performInitialization executions of the MCP server in one run
MaxServerRuns == 2
\* McpServerInstance.initialize calls in one run
MaxServerCalls == 3
\* terminate() calls in one run
MaxTerminations == 2
\* processDocument / deleteDocument executions in one run
MaxTasks == 2
\* batchSize of upsertChunks (50 in the source), scaled down
BatchSize == 2

NULL == 0
NoWatcher == "none"

Dirs == {"d1", "d2"}
\* directory lists a caller may pass to initialize()
DirLists == {<<>>, <<"d1">>, <<"d1", "d2">>}

ServiceOrder == <<"embedding", "database", "documentProcessor", "directoryWatcher">>
ServiceNames == {ServiceOrder[i] : i \in 1..4}

AttemptIds == 1..MaxAttempts
DirCallIds == 1..MaxDirCalls
ServerRunIds == 1..MaxServerRuns
ServerCallIds == 1..MaxServerCalls
TaskIds == 1..MaxTasks

VARIABLES
  embeddingIsReady,      \* EmbeddingService.isReady
  connectorIsReady,      \* LanceDBConnector.isReady
  dbIsReady,             \* LanceDBService.isReady
  processorIsReady,      \* DocumentProcessor.isReady
  isReady,               \* ReadinessManager.isReady
  status,                \* ReadinessManager.status
  initializationPromise, \* ReadinessManager.initializationPromise (NULL or attempt id)
  initializationFailed,  \* ReadinessManager.initializationFailed
  attempts,              \* the performInitialization activations
  watchedDirs,           \* DirectoryWatcher.watchedDirs
  watcher,               \* DirectoryWatcher.watcher: NoWatcher or the directory it observes
  isWatching,            \* DirectoryWatcher.isWatching
  lastCall,              \* the latest call of a public service operation and what it did
  client,                \* a caller's watchDirectory / processFile in progress
  waiter,                \* a waitForReady call: its promise and its two timers
  debouncedProcessFile,  \* the debounced add/change handler: timer, last arguments
  debouncedDeleteFile,   \* the debounced unlink handler: timer, last arguments
  handlers,              \* executions of the debounced handlers, in order of start
  emitted,               \* the filesystem events reported so far
  chokidars,             \* the chokidar watchers created so far: directory, open or closed
  watcherRef,            \* DirectoryWatcher.watcher as an index into chokidars, NULL for null
  dirCalls,              \* watchDirectory / stopWatching calls of the callers
  serverInitialized,     \* McpServerInstance.initialized
  serverPromise,         \* McpServerInstance.initializationPromise: a run, NULL for null
  server,                \* McpServerInstance.server: the run that created it, NULL before
  serverRuns,            \* the performInitialization executions
  serverCalls,           \* the callers of McpServerInstance.initialize
  term,                  \* the terminate() execution
  table,                 \* the rows of the document_chunks table, in append order
  files,                 \* the content of each file on disk: original or rewritten
  tasks,                 \* processDocument / deleteDocument executions
  search,                \* the last similaritySearch call and what it returned
  ranked,                \* a similaritySearch call seen from its retrieval configuration to its scores
  lookup,                \* the last getRetrievalConfig call: its argument and what it returned
  reply,                 \* the last retrieveContext / document_qa call and its protocol reply
  index,                 \* the last createVectorIndexInternal call and the index it built
  chunked                \* the last chunkDocument call: its segments and the chunks it produced

serviceVars == <<embeddingIsReady, connectorIsReady, dbIsReady, processorIsReady>>
managerVars == <<isReady, status, initializationPromise, initializationFailed, attempts>>
dirWatcherVars == <<watchedDirs, watcher, isWatching, chokidars, watcherRef>>
dirCallVars == <<dirCalls>>
serverVars == <<serverInitialized, serverPromise, server, serverRuns, serverCalls, term>>
storeVars == <<table, files, tasks>>
searchVars == <<search>>
retrievalVars == <<ranked, lookup, reply>>
indexVars == <<index>>
chunkVars == <<chunked>>
laterVars == <<retrievalVars, indexVars, chunkVars>>
otherVars == <<dirCallVars, serverVars, storeVars, searchVars, laterVars>>
callVars == <<lastCall, client, waiter>>
eventVars == <<debouncedProcessFile, debouncedDeleteFile, handlers, emitted>>

\* ------------------------------------------------------ ReadinessManager
\* the object literal { isReady: false, services: {}, initializationState: 'pending' }
InitialStatus ==
  [ isReady |-> FALSE,
    services |-> [s \in ServiceNames |-> "absent"],
    errors |-> [s \in ServiceNames |-> "none"],
    initializationState |-> "pending",
    initializationError |-> "none" ]

IdleAttempt ==
  [ pc |-> "idle", dirs |-> <<>>, idx |-> 0, real |-> FALSE, trace |-> <<>> ]

Ev(e, x) == [e |-> e, x |-> x]

\* an attempt whose performInitialization has started and not yet returned or thrown
InFlight(a) == attempts[a].pc \notin {"idle", "done", "failed"}

\* this.status.services.<s> = { ready: false }
RecordStarted(st, s) ==
  [st EXCEPT !.services[s] = "notready", !.errors[s] = "none"]

\* this.status.services.<s>.ready = true  (the property must exist)
RecordReady(st, s) ==
  [st EXCEPT !.services[s] = "ready"]

\* Object.keys(services).find(key => services[key].ready === false)
FailedService(st) ==
  LET idxs == {i \in 1..4 : st.services[ServiceOrder[i]] = "notready"}
  IN IF idxs = {} THEN "none"
     ELSE ServiceOrder[CHOOSE i \in idxs : \A j \in idxs : i <= j]

\* the catch block of performInitialization
CatchStatus(st, msg) ==
  LET f == FailedService(st)
      st1 == IF f = "none" THEN st ELSE [st EXCEPT !.errors[f] = msg]
  IN [st1 EXCEPT !.initializationState = "failed", !.initializationError = msg]

Catch(a, msg) ==
  /\ status' = CatchStatus(status, msg)
  /\ initializationFailed' = TRUE
  /\ initializationPromise' = NULL
  /\ attempts' = [attempts EXCEPT ![a].pc = "failed",
                                  ![a].trace = Append(@, Ev("fail", msg))]
  /\ UNCHANGED isReady

\* initialize(): "Return existing promise if initialization is in progress"
InitializeReturnsExisting == initializationPromise # NULL

\* initialize(documentDirectories), including the synchronous head of
\* performInitialization up to the first await
Initialize(dirs) ==
  /\ ~InitializeReturnsExisting
  /\ \E a \in AttemptIds :
       /\ attempts[a].pc = "idle"
       /\ \A b \in AttemptIds : b < a => attempts[b].pc # "idle"
       /\ initializationPromise' = a
       /\ status' = RecordStarted([status EXCEPT !.isReady = FALSE,
                                                 !.initializationState = "pending"],
                                  "embedding")
       /\ attempts' = [attempts EXCEPT ![a] =
                         [ pc |-> "embedding", dirs |-> dirs, idx |-> 0,
                           real |-> ~embeddingIsReady,
                           trace |-> <<Ev("started", "embedding"),
                                       Ev("invoke", "embedding")>> ]]
  /\ UNCHANGED <<isReady, initializationFailed, serviceVars, dirWatcherVars, callVars, eventVars, otherVars>>

\* the tail of performInitialization: "All services initialized"
Complete(a, st, pre) ==
  /\ isReady' = TRUE
  /\ status' = [st EXCEPT !.isReady = TRUE, !.initializationState = "complete"]
  /\ attempts' = [attempts EXCEPT ![a].pc = "done",
                                  ![a].trace = @ \o pre \o <<Ev("complete", "all")>>]
  /\ UNCHANGED <<initializationPromise, initializationFailed>>

\* outcomes of an awaited service call: a call that found the service
\* already initialized returns at once and cannot fail
Outcomes(a) == IF attempts[a].real THEN BOOLEAN ELSE {TRUE}

\* await embeddingService.initialize() returns or throws
EmbeddingDone(a) ==
  /\ attempts[a].pc = "embedding"
  /\ \E ok \in Outcomes(a) :
       IF ~ok
       THEN /\ Catch(a, "embedding")
            /\ UNCHANGED serviceVars
       ELSE /\ embeddingIsReady' = TRUE
            /\ UNCHANGED <<connectorIsReady, dbIsReady, processorIsReady>>
            /\ IF status.services["embedding"] = "absent"
               THEN Catch(a, "TypeError")
               ELSE /\ status' = RecordStarted(RecordReady(status, "embedding"), "database")
                    /\ attempts' = [attempts EXCEPT
                         ![a].pc = "connector",
                         ![a].real = ~connectorIsReady,
                         ![a].trace = @ \o <<Ev("ready", "embedding"),
                                             Ev("started", "database"),
                                             Ev("invoke", "connector")>>]
                    /\ UNCHANGED <<isReady, initializationPromise, initializationFailed>>
  /\ UNCHANGED <<dirWatcherVars, callVars, eventVars, otherVars>>

\* await dbConnector.initialize() returns or throws
ConnectorDone(a) ==
  /\ attempts[a].pc = "connector"
  /\ \E ok \in Outcomes(a) :
       IF ~ok
       THEN /\ Catch(a, "connector")
            /\ UNCHANGED serviceVars
       ELSE /\ connectorIsReady' = TRUE
            /\ UNCHANGED <<embeddingIsReady, dbIsReady, processorIsReady>>
            /\ attempts' = [attempts EXCEPT
                 ![a].pc = "dbService",
                 ![a].real = ~dbIsReady,
                 ![a].trace = Append(@, Ev("invoke", "dbService"))]
            /\ UNCHANGED <<isReady, status, initializationPromise, initializationFailed>>
  /\ UNCHANGED <<dirWatcherVars, callVars, eventVars, otherVars>>

\* DocumentProcessor.initialize() when both of its dependencies are
\* initialized: no await is reached, isReady is set during the call
ProcessorInitializeSync(embReady, dbReady) ==
  processorIsReady \/ (embReady /\ dbReady)

\* await dbService.initialize() returns or throws
DbServiceDone(a) ==
  /\ attempts[a].pc = "dbService"
  /\ \E ok \in Outcomes(a) :
       IF ~ok
       THEN /\ Catch(a, "dbService")
            /\ UNCHANGED serviceVars
       ELSE /\ dbIsReady' = TRUE
            /\ UNCHANGED <<embeddingIsReady, connectorIsReady>>
            /\ IF status.services["database"] = "absent"
               THEN /\ Catch(a, "TypeError")
                    /\ UNCHANGED processorIsReady
               ELSE /\ status' = RecordStarted(RecordReady(status, "database"),
                                               "documentProcessor")
                    /\ processorIsReady' = ProcessorInitializeSync(embeddingIsReady, TRUE)
                    /\ attempts' = [attempts EXCEPT
                         ![a].pc = "documentProcessor",
                         ![a].real = FALSE,
                         ![a].trace = @ \o <<Ev("ready", "database"),
                                             Ev("started", "documentProcessor"),
                                             Ev("invoke", "documentProcessor")>>]
                    /\ UNCHANGED <<isReady, initializationPromise, initializationFailed>>
  /\ UNCHANGED <<dirWatcherVars, callVars, eventVars, otherVars>>

\* a length test that is off by one: an empty list also opens the watcher step
HasDirectoriesOffByOne(dirs) == Len(dirs) >= 0

\* "if (documentDirectories && documentDirectories.length > 0)"
HasDirectories(dirs) == Len(dirs) > 0

\* one turn of "for (const dir of documentDirectories)": call
\* watchDirectory on the i-th directory, or leave the loop, record the
\* watcher ready and finish
WatchLoop(a, st, i, pre) ==
  LET dirs == attempts[a].dirs
  IN IF i <= Len(dirs)
     THEN /\ status' = st
          /\ attempts' = [attempts EXCEPT
               ![a].pc = "watch",
               ![a].idx = i,
               ![a].trace = @ \o pre \o <<Ev("invoke", dirs[i])>>]
          /\ UNCHANGED <<isReady, initializationPromise, initializationFailed>>
     ELSE IF st.services["directoryWatcher"] = "absent"
          THEN Catch(a, "TypeError")
          ELSE Complete(a, RecordReady(st, "directoryWatcher"),
                        pre \o <<Ev("ready", "directoryWatcher")>>)

\* await documentProcessor.initialize() returns
ProcessorDone(a) ==
  /\ attempts[a].pc = "documentProcessor"
  /\ IF status.services["documentProcessor"] = "absent"
     THEN Catch(a, "TypeError")
     ELSE LET st == RecordReady(status, "documentProcessor")
          IN IF HasDirectories(attempts[a].dirs)
             THEN WatchLoop(a, RecordStarted(st, "directoryWatcher"), 1,
                            <<Ev("ready", "documentProcessor"),
                              Ev("started", "directoryWatcher")>>)
             ELSE Complete(a, st, <<Ev("ready", "documentProcessor")>>)
  /\ UNCHANGED <<serviceVars, dirWatcherVars, callVars, eventVars, otherVars>>

\* ------------------------------------------------------ DirectoryWatcher
\* a check that never finds a watcher
WatcherNeverSeen(ref) == FALSE

\* "if (this.watcher)": a watcher is referenced
HasWatcher(ref) == ref # NULL

\* await this.watcher.close() has returned: that chokidar watcher is closed
CloseWatcher(ws, ref) ==
  IF HasWatcher(ref) THEN [ws EXCEPT ![ref].open = FALSE] ELSE ws

\* watchDirectory(dirPath) after the directory has been found to exist:
\* track the directory, close the existing watcher, create the new one,
\* setupEventHandlers(); done in one step, the new watcher takes the place
\* of the closed one in chokidars
WatchDirectoryEffect(dir) ==
  /\ watchedDirs' = watchedDirs \cup {dir}
  /\ watcher' = dir
  /\ isWatching' = TRUE
  /\ chokidars' = IF HasWatcher(watcherRef)
                   THEN [chokidars EXCEPT ![watcherRef] = [dir |-> dir, open |-> TRUE]]
                   ELSE Append(chokidars, [dir |-> dir, open |-> TRUE])
  /\ watcherRef' = IF HasWatcher(watcherRef) THEN watcherRef ELSE Len(chokidars) + 1

\* await directoryWatcher.watchDirectory(dir) returns or throws
\* ("Directory does not exist" is the failure)
WatchDone(a) ==
  /\ attempts[a].pc = "watch"
  /\ LET dirs == attempts[a].dirs
         i == attempts[a].idx
     IN \E ok \in BOOLEAN :
          IF ~ok
          THEN /\ Catch(a, "watch")
               /\ UNCHANGED dirWatcherVars
          ELSE /\ WatchDirectoryEffect(dirs[i])
               /\ WatchLoop(a, status, i + 1, <<Ev("watched", dirs[i])>>)
  /\ UNCHANGED <<serviceVars, callVars, eventVars, otherVars>>

\* a reset that forgets the stored promise
ResetKeepsPromise ==
  /\ isReady' = FALSE
  /\ initializationFailed' = FALSE
  /\ status' = InitialStatus
  /\ UNCHANGED <<initializationPromise, attempts, serviceVars, dirWatcherVars, callVars, eventVars, otherVars>>

\* reset()
Reset ==
  /\ isReady' = FALSE
  /\ initializationFailed' = FALSE
  /\ initializationPromise' = NULL
  /\ status' = InitialStatus
  /\ UNCHANGED <<attempts, serviceVars, dirWatcherVars, callVars, eventVars, otherVars>>

\* ---------------------------------------- public operations of the services
NoCall == [op |-> "none", result |-> "none", calls |-> {}, state |-> "pending",
           embedding |-> FALSE, database |-> FALSE, processor |-> FALSE]
NoClient == [pc |-> "none", op |-> "none", arg |-> "none"]

EmbeddingOps == {"embedText", "embedTexts"}
StoreOps == {"upsertChunks", "deleteDocument", "similaritySearch", "getDocumentsMetadata"}
ProcessorOps == {"processDocument", "processorDeleteDocument"}
GatedOps == EmbeddingOps \cup StoreOps \cup ProcessorOps
WatcherOps == {"watchDirectory", "processFile"}

\* an embedding gate that was left out
EmbeddingGateMissing == TRUE

\* "if (!this.isReady || !this.embeddingModel) throw": the model object is
\* created before isReady is set, so the flag decides
EmbeddingGate == embeddingIsReady

\* a store gate that was left out
StoreGateMissing == TRUE

\* "if (!this.isReady || !this.table) throw": the table is opened before
\* isReady is set, so the flag decides
StoreGate == dbIsReady

\* "if (!this.isReady) throw" of DocumentProcessor
ProcessorGate == processorIsReady

Gate(op) ==
  CASE op \in EmbeddingOps -> EmbeddingGate
    [] op \in StoreOps -> StoreGate
    [] op \in ProcessorOps -> ProcessorGate

\* the collaborators an admitted operation calls: the embedding model
\* (through embedText, which has its own gate), the table, the pipeline
EmbedCalls == IF EmbeddingGate THEN {"model"} ELSE {}
StoreCalls(op) ==
  CASE op = "upsertChunks" -> EmbedCalls \cup {"table"}
    [] op = "similaritySearch" -> EmbedCalls \cup {"table"}
    [] OTHER -> {"table"}
CallsOf(op) ==
  CASE op \in EmbeddingOps -> EmbedCalls
    [] op \in StoreOps -> StoreCalls(op)
    [] op = "processDocument" -> {"pipeline"} \cup (IF StoreGate THEN StoreCalls("upsertChunks") ELSE {})
    [] op = "processorDeleteDocument" -> {"pipeline"} \cup (IF StoreGate THEN {"table"} ELSE {})

CallRecord(op, result, calls) ==
  [op |-> op, result |-> result, calls |-> calls,
   state |-> status.initializationState,
   embedding |-> embeddingIsReady, database |-> dbIsReady,
   processor |-> processorIsReady]

\* a caller invokes one of the gated operations
PublicCall(op) ==
  /\ lastCall' = IF Gate(op) THEN CallRecord(op, "performed", CallsOf(op))
                 ELSE CallRecord(op, "rejected", {})
  /\ UNCHANGED <<serviceVars, managerVars, dirWatcherVars, client, waiter, eventVars, otherVars>>

\* DirectoryWatcher.getInstance(): its constructor builds the
\* DocumentProcessor, whose constructor calls getEmbeddingModel()
WatcherInstanceAvailable == embeddingIsReady

\* ensureDocumentProcessorInitialized() up to its first await:
\* DocumentProcessor.initialize() finishes at once when the store is
\* initialized, otherwise it awaits dbService.initialize()
EnsureProcessor(op, arg, after) ==
  IF processorIsReady \/ dbIsReady
  THEN /\ processorIsReady' = ProcessorInitializeSync(embeddingIsReady, dbIsReady)
       /\ client' = [pc |-> after, op |-> op, arg |-> arg]
  ELSE /\ client' = [pc |-> "dbinit", op |-> op, arg |-> arg]
       /\ UNCHANGED processorIsReady

\* a caller invokes watchDirectory(dir)
ClientWatchDirectory(dir) ==
  /\ client.pc = "none"
  /\ IF ~WatcherInstanceAvailable
     THEN /\ lastCall' = CallRecord("watchDirectory", "noInstance", {})
          /\ UNCHANGED <<client, processorIsReady>>
     ELSE /\ lastCall' = CallRecord("watchDirectory", "performed",
                                    IF processorIsReady THEN {} ELSE {"pipeline"})
          /\ EnsureProcessor("watchDirectory", dir, "access")
  /\ UNCHANGED <<embeddingIsReady, connectorIsReady, dbIsReady, managerVars, dirWatcherVars, waiter, eventVars, otherVars>>

\* hasAllowedExtension(filePath)
AllowedFiles == {"a.txt", "b.txt"}

\* an extension check that admits every path
EveryExtensionAllowed(f) == TRUE
Files == {"a.txt", "b.txt", "x.bin"}
hasAllowedExtension(f) == f \in AllowedFiles

\* a caller invokes processFile(filePath)
ClientProcessFile(f) ==
  /\ client.pc = "none"
  /\ IF ~WatcherInstanceAvailable
     THEN /\ lastCall' = CallRecord("processFile", "noInstance", {})
          /\ UNCHANGED <<client, processorIsReady>>
     ELSE IF ~hasAllowedExtension(f)
          THEN /\ lastCall' = CallRecord("processFile", "skipped", {})
               /\ UNCHANGED <<client, processorIsReady>>
          ELSE /\ lastCall' = CallRecord("processFile", "performed", {"pipeline"})
               /\ EnsureProcessor("processFile", f, "process")
  /\ UNCHANGED <<embeddingIsReady, connectorIsReady, dbIsReady, managerVars, dirWatcherVars, waiter, eventVars, otherVars>>

\* the caller's awaited dbService.initialize() (which connects first when
\* the connector is not initialized) returns or throws
ClientDbInitDone ==
  /\ client.pc = "dbinit"
  /\ \E connected, ok \in BOOLEAN :
       /\ ok => connected
       /\ connectorIsReady' = (connectorIsReady \/ connected)
       /\ dbIsReady' = (dbIsReady \/ ok)
       /\ processorIsReady' = (processorIsReady \/ ok)
       /\ client' = IF ok
                    THEN [client EXCEPT !.pc = IF client.op = "watchDirectory"
                                               THEN "access" ELSE "process"]
                    ELSE NoClient
  /\ UNCHANGED <<embeddingIsReady, managerVars, dirWatcherVars, lastCall, waiter, eventVars, otherVars>>

\* the caller's watchDirectory: fs.promises.access returns or throws
ClientAccessDone ==
  /\ client.pc = "access"
  /\ \E ok \in BOOLEAN :
       IF ok THEN WatchDirectoryEffect(client.arg) ELSE UNCHANGED dirWatcherVars
  /\ client' = NoClient
  /\ UNCHANGED <<serviceVars, managerVars, lastCall, waiter, eventVars, otherVars>>

\* the caller's processFile reaches documentProcessor.processDocument(filePath)
ClientProcessDone ==
  /\ client.pc = "process"
  /\ lastCall' = IF ProcessorGate
                 THEN CallRecord("processDocument", "performed", CallsOf("processDocument"))
                 ELSE CallRecord("processDocument", "rejected", {})
  /\ client' = NoClient
  /\ UNCHANGED <<serviceVars, managerVars, dirWatcherVars, waiter, eventVars, otherVars>>

\* ------------------------------------------------------- waitForReady
\* the poll interval "setTimeout(checkReady, 100)" is the unit of time
PollInterval == 1

NoWaiter ==
  [ outcome |-> "none",        \* none | pending | resolved | failed | timeout
    t |-> 0,                   \* timeoutMs, in poll intervals
    elapsed |-> 0,             \* time since the call
    timeoutArmed |-> FALSE, timeoutLeft |-> 0,   \* the setTimeout(reject, timeoutMs) timer
    pollArmed |-> FALSE, pollLeft |-> 0,         \* the setTimeout(checkReady, 100) timer
    callReady |-> FALSE, callFailed |-> FALSE,   \* isReady / initializationFailed at the call
    settleReady |-> FALSE, settleFailed |-> FALSE ]

\* a promise settles once: resolve / reject after that change nothing
Settle(w, outcome) ==
  IF w.outcome = "pending"
  THEN [w EXCEPT !.outcome = outcome,
                 !.settleReady = isReady, !.settleFailed = initializationFailed]
  ELSE w

\* waitForReady(timeoutMs): the two early exits, else the promise with its
\* timeout timer and the first (synchronous) checkReady()
WaitForReady(t) ==
  /\ waiter.outcome # "pending" /\ ~waiter.timeoutArmed /\ ~waiter.pollArmed
  /\ LET w == [NoWaiter EXCEPT !.outcome = "pending", !.t = t,
                               !.callReady = isReady,
                               !.callFailed = initializationFailed]
     IN waiter' =
          IF isReady THEN Settle(w, "resolved")
          ELSE IF initializationFailed THEN Settle(w, "failed")
          ELSE [w EXCEPT !.timeoutArmed = TRUE, !.timeoutLeft = t,
                         !.pollArmed = TRUE, !.pollLeft = PollInterval]
  /\ UNCHANGED <<serviceVars, managerVars, dirWatcherVars, lastCall, client, eventVars, otherVars>>

\* the timeout callback: reject(new Error('Timed out ...'))
TimeoutFires ==
  /\ waiter.timeoutArmed /\ waiter.timeoutLeft = 0
  /\ waiter' = [Settle(waiter, "timeout") EXCEPT !.timeoutArmed = FALSE]
  /\ UNCHANGED <<serviceVars, managerVars, dirWatcherVars, lastCall, client, eventVars, otherVars>>

\* checkReady() run by its timer
CheckReady ==
  /\ waiter.pollArmed /\ waiter.pollLeft = 0
  /\ waiter' =
       IF isReady
       THEN [Settle(waiter, "resolved") EXCEPT !.timeoutArmed = FALSE, !.pollArmed = FALSE]
       ELSE IF initializationFailed
       THEN [Settle(waiter, "failed") EXCEPT !.timeoutArmed = FALSE, !.pollArmed = FALSE]
       ELSE [waiter EXCEPT !.pollLeft = PollInterval]
  /\ UNCHANGED <<serviceVars, managerVars, dirWatcherVars, lastCall, client, eventVars, otherVars>>

\* time passes by one poll interval; a timer that is due runs first
Tick ==
  /\ waiter.timeoutArmed \/ waiter.pollArmed
  /\ ~(waiter.timeoutArmed /\ waiter.timeoutLeft = 0)
  /\ ~(waiter.pollArmed /\ waiter.pollLeft = 0)
  /\ waiter' = [waiter EXCEPT
       !.timeoutLeft = IF waiter.timeoutArmed THEN @ - 1 ELSE @,
       !.pollLeft = IF waiter.pollArmed THEN @ - 1 ELSE @,
       !.elapsed = IF @ <= MaxTimeout THEN @ + 1 ELSE @]
  /\ UNCHANGED <<serviceVars, managerVars, dirWatcherVars, lastCall, client, eventVars, otherVars>>

\* ------------------------------------- DirectoryWatcher event handlers
\* "private debounceMs: number = 500", in units of 250 ms
DebounceTicks == 2

EventKinds == {"add", "change", "unlink"}
NoArgs == [ev |-> "none", path |-> "none", isNew |-> FALSE]

\* lodash debounce(func, wait) with its default options (trailing edge
\* only): timerId, the time left on the timer, the time since the last
\* call, lastArgs; burst lists the calls since the last invocation
IdleDebounce ==
  [ timer |-> FALSE, left |-> 0, sinceLast |-> 0, lastArgs |-> NoArgs, burst |-> <<>> ]

\* a call of the debounced function: remember the arguments and the time
\* of the call, start the timer unless one is running
DebounceCall(d, args) ==
  [ timer |-> TRUE,
    left |-> IF d.timer THEN d.left ELSE DebounceTicks,
    sinceLast |-> 0,
    lastArgs |-> args,
    burst |-> Append(d.burst, args) ]

\* shouldInvoke() in timerExpired: the wait has passed since the last call
ShouldInvoke(d) == d.sinceLast >= DebounceTicks

\* timerExpired when the last call is too recent: restart the timer for
\* the remaining wait
DebounceRestart(d) == [d EXCEPT !.left = DebounceTicks - d.sinceLast]

\* the flag a handler registration passes: on('add') passes true,
\* on('change') passes false
IsNew(ev) == ev = "add"

\* the watcher callbacks .on('add' | 'change' | 'unlink')
Emit(ev, f) ==
  /\ watcher # NoWatcher
  /\ Len(emitted) < MaxEvents
  /\ emitted' = Append(emitted, [ev |-> ev, path |-> f])
  /\ LET args == [ev |-> ev, path |-> f, isNew |-> IsNew(ev)]
     IN IF ev = "unlink"
        THEN /\ debouncedDeleteFile' = DebounceCall(debouncedDeleteFile, args)
             /\ UNCHANGED debouncedProcessFile
        ELSE /\ debouncedProcessFile' = DebounceCall(debouncedProcessFile, args)
             /\ UNCHANGED debouncedDeleteFile
  /\ UNCHANGED <<serviceVars, managerVars, dirWatcherVars, callVars, otherVars, handlers>>

\* the body of debouncedProcessFile up to its first await
\* "if (!isNew) await deleteDocument(filePath)" comes before processDocument
DeletesFirst(args) == ~args.isNew

\* DocumentProcessor.deleteDocument / processDocument throw at once when
\* the processor is not initialized; the handler's catch logs the error
StartCall(name) == IF ProcessorGate THEN <<name>> ELSE <<name, "rejected">>

ProcessHandler(d) ==
  LET args == d.lastArgs
      base == [ kind |-> "process", ev |-> args.ev, path |-> args.path,
                isNew |-> args.isNew, burst |-> d.burst, waited |-> d.sinceLast,
                pc |-> "done", calls |-> <<>> ]
  IN IF ~hasAllowedExtension(args.path) THEN base
     ELSE IF DeletesFirst(args)
     THEN [base EXCEPT !.calls = StartCall("deleteDocument"),
                       !.pc = IF ProcessorGate THEN "deleting" ELSE "done"]
     ELSE [base EXCEPT !.calls = StartCall("processDocument"),
                       !.pc = IF ProcessorGate THEN "processing" ELSE "done"]

\* the body of debouncedDeleteFile up to its await
DeleteHandler(d) ==
  LET args == d.lastArgs
      base == [ kind |-> "delete", ev |-> args.ev, path |-> args.path,
                isNew |-> args.isNew, burst |-> d.burst, waited |-> d.sinceLast,
                pc |-> "done", calls |-> <<>> ]
  IN IF ~hasAllowedExtension(args.path) THEN base
     ELSE [base EXCEPT !.calls = StartCall("deleteDocument"),
                       !.pc = IF ProcessorGate THEN "deleting" ELSE "done"]

\* the timer of debouncedProcessFile expires
ProcessTimerExpired ==
  /\ debouncedProcessFile.timer /\ debouncedProcessFile.left = 0
  /\ IF ShouldInvoke(debouncedProcessFile)
     THEN /\ handlers' = Append(handlers, ProcessHandler(debouncedProcessFile))
          /\ debouncedProcessFile' = IdleDebounce
     ELSE /\ debouncedProcessFile' = DebounceRestart(debouncedProcessFile)
          /\ UNCHANGED handlers
  /\ UNCHANGED <<serviceVars, managerVars, dirWatcherVars, callVars, otherVars,
                 debouncedDeleteFile, emitted>>

\* the timer of debouncedDeleteFile expires
DeleteTimerExpired ==
  /\ debouncedDeleteFile.timer /\ debouncedDeleteFile.left = 0
  /\ IF ShouldInvoke(debouncedDeleteFile)
     THEN /\ handlers' = Append(handlers, DeleteHandler(debouncedDeleteFile))
          /\ debouncedDeleteFile' = IdleDebounce
     ELSE /\ debouncedDeleteFile' = DebounceRestart(debouncedDeleteFile)
          /\ UNCHANGED handlers
  /\ UNCHANGED <<serviceVars, managerVars, dirWatcherVars, callVars, otherVars,
                 debouncedProcessFile, emitted>>

\* a handler whose catch block lets the error escape
HandlerCatchRethrows(r, failure) ==
  [r EXCEPT !.calls = Append(@, failure), !.pc = "rejected"]

\* the catch block of a debounced handler: the error is logged, the
\* handler returns normally
HandlerCatch(r, failure) ==
  [r EXCEPT !.calls = Append(@, failure), !.pc = "done"]

\* a handler's awaited deleteDocument(filePath) returns or throws; after a
\* successful delete the add/change handler goes on to processDocument
DeleteDone(h) ==
  /\ handlers[h].pc = "deleting"
  /\ \E ok \in BOOLEAN :
       handlers' = [handlers EXCEPT ![h] =
         IF ~ok THEN HandlerCatch(@, "deleteFailed")
         ELSE IF @.kind = "delete"
         THEN [@ EXCEPT !.calls = Append(@, "deleted"), !.pc = "done"]
         ELSE [@ EXCEPT !.calls = @ \o <<"deleted">> \o StartCall("processDocument"),
                        !.pc = IF ProcessorGate THEN "processing" ELSE "done"]]
  /\ UNCHANGED <<serviceVars, managerVars, dirWatcherVars, callVars, otherVars,
                 debouncedProcessFile, debouncedDeleteFile, emitted>>

\* a handler's awaited processDocument(filePath) returns or throws
ProcessDone(h) ==
  /\ handlers[h].pc = "processing"
  /\ \E ok \in BOOLEAN :
       handlers' = [handlers EXCEPT ![h] =
         IF ok THEN [@ EXCEPT !.calls = Append(@, "processed"), !.pc = "done"]
         ELSE HandlerCatch(@, "processFailed")]
  /\ UNCHANGED <<serviceVars, managerVars, dirWatcherVars, callVars, otherVars,
                 debouncedProcessFile, debouncedDeleteFile, emitted>>

\* 250 ms pass; a debounce timer that is due runs first
Advance(d) ==
  IF d.timer
  THEN [d EXCEPT !.left = @ - 1,
                 !.sinceLast = IF @ < DebounceTicks THEN @ + 1 ELSE @]
  ELSE d

TickWatch ==
  /\ debouncedProcessFile.timer \/ debouncedDeleteFile.timer
  /\ ~(debouncedProcessFile.timer /\ debouncedProcessFile.left = 0)
  /\ ~(debouncedDeleteFile.timer /\ debouncedDeleteFile.left = 0)
  /\ debouncedProcessFile' = Advance(debouncedProcessFile)
  /\ debouncedDeleteFile' = Advance(debouncedDeleteFile)
  /\ UNCHANGED <<serviceVars, managerVars, dirWatcherVars, callVars, otherVars, handlers, emitted>>

\* --------------------------- callers of watchDirectory and stopWatching
IdleDirCall == [pc |-> "idle", op |-> "none", dir |-> "none", target |-> NULL]

vars == <<serviceVars, managerVars, dirWatcherVars, callVars, eventVars, otherVars>>

\* ------------------------------------------------------ McpServerInstance
IdleRun == [pc |-> "idle", deps |-> "pending", registered |-> FALSE]

IdleServerCall == [pc |-> "idle", run |-> NULL]

IdleTerm == [pc |-> "idle", n |-> 0, target |-> NULL, log |-> <<>>]

\* ------------------------------------ DocumentProcessor and LanceDBService
IdleTask == [ pc |-> "idle", op |-> "none", path |-> "none", chunks |-> <<>>, i |-> 0,
              count |-> 0, result |-> 0, log |-> <<>> ]

\* a call that has thrown
\* a handler that goes on to processDocument after a call of it has thrown
ReprocessAnyway(task) == [task EXCEPT !.pc = "load"]

\* an awaited call has thrown: the execution ends with the error
FailedTask(task) == [IdleTask EXCEPT !.pc = "failed", !.op = task.op, !.path = task.path]

\* what upsertChunks did to a batch: e is embed, add or optimize, or one of
\* these with "Failed" when the awaited call threw
Did(e, batch) ==
  [e |-> e, first |-> IF Len(batch) = 0 THEN 0 ELSE batch[1].chunkIndex, size |-> Len(batch)]

\* a failure inside the loop that is logged and passed over
SwallowedFailure(task, event) == [task EXCEPT !.log = Append(task.log, event)]

\* upsertChunks has thrown out of its loop
FailedUpsert(task, event) == [FailedTask(task) EXCEPT !.log = Append(task.log, event)]

\* --------------------------------------------------- similaritySearch
\* a field left out of the filters argument, and a field given a value
Absent == [given |-> FALSE, value |-> <<>>]

Given(value) == [given |-> TRUE, value |-> value]

NoFilters == [documentIds |-> Absent, fileTypes |-> Absent, language |-> Absent,
              dateRange |-> [given |-> FALSE, start |-> Absent, end |-> Absent]]

NoSearch == [filters |-> NoFilters, where |-> <<>>, outcome |-> "none", result |-> {}]

NoRanked == [config |-> [distanceType |-> "none", k |-> 0], hits |-> <<>>,
             outcome |-> "none", results |-> <<>>]

NoConfig == [kind |-> "undefined", key |-> "undefined", indexType |-> "none", k |-> 0,
             distanceMetric |-> "none", refineFactor |-> 0]

NoLookup == [intent |-> [given |-> FALSE, value |-> "undefined"], outcome |-> "none", result |-> NoConfig]

NoReply == [caller |-> "none", docIds |-> <<>>, search |-> "none", isError |-> FALSE, text |-> "none"]

NoIndex == [rowCount |-> 0, dimension |-> 0, outcome |-> "none", built |-> FALSE,
            numPartitions |-> 0, numSubVectors |-> 0, distanceType |-> "none"]

NoChunked == [docs |-> <<>>, outcome |-> "none", chunks |-> <<>>]

\* the variables of the later sections start idle
OtherInitWith(rows) ==
  /\ dirCalls = [c \in DirCallIds |-> IdleDirCall]
  /\ serverInitialized = FALSE
  /\ serverPromise = NULL
  /\ server = NULL
  /\ serverRuns = [r \in ServerRunIds |-> IdleRun]
  /\ serverCalls = [c \in ServerCallIds |-> IdleServerCall]
  /\ term = IdleTerm
  /\ table = rows
  /\ files = [p \in AllowedFiles |-> "original"]
  /\ tasks = [t \in TaskIds |-> IdleTask]
  /\ search = NoSearch
  /\ ranked = NoRanked
  /\ lookup = NoLookup
  /\ reply = NoReply
  /\ index = NoIndex
  /\ chunked = NoChunked

OtherInit == OtherInitWith(<<>>)

Init ==
  /\ embeddingIsReady = FALSE
  /\ connectorIsReady = FALSE
  /\ dbIsReady = FALSE
  /\ processorIsReady = FALSE
  /\ isReady = FALSE
  /\ status = InitialStatus
  /\ initializationPromise = NULL
  /\ initializationFailed = FALSE
  /\ attempts = [a \in AttemptIds |-> IdleAttempt]
  /\ watchedDirs = {}
  /\ watcher = NoWatcher
  /\ isWatching = FALSE
  /\ chokidars = <<>>
  /\ watcherRef = NULL
  /\ OtherInit
  /\ lastCall = NoCall
  /\ client = NoClient
  /\ waiter = NoWaiter
  /\ debouncedProcessFile = IdleDebounce
  /\ debouncedDeleteFile = IdleDebounce
  /\ handlers = <<>>
  /\ emitted = <<>>

Next ==
  \/ \E dirs \in DirLists : Initialize(dirs)
  \/ \E a \in AttemptIds : EmbeddingDone(a)
  \/ \E a \in AttemptIds : ConnectorDone(a)
  \/ \E a \in AttemptIds : DbServiceDone(a)
  \/ \E a \in AttemptIds : ProcessorDone(a)
  \/ \E a \in AttemptIds : WatchDone(a)
  \/ Reset

Spec == Init /\ [][Next]_vars

\* the directory lists of the startups the callers run against: the gates
\* do not read the list, one watched directory reaches every step
CallDirLists == {<<"d1">>}

\* the startup sequence together with callers of the public operations
NextCalls ==
  \/ \E dirs \in CallDirLists : attempts[MaxCallAttempts].pc = "idle" /\ Initialize(dirs)
  \/ \E a \in AttemptIds : EmbeddingDone(a)
  \/ \E a \in AttemptIds : ConnectorDone(a)
  \/ \E a \in AttemptIds : DbServiceDone(a)
  \/ \E a \in AttemptIds : ProcessorDone(a)
  \/ \E a \in AttemptIds : WatchDone(a)
  \/ Reset
  \/ \E op \in GatedOps : PublicCall(op)
  \/ \E dir \in Dirs : ClientWatchDirectory(dir)
  \/ \E f \in Files : ClientProcessFile(f)
  \/ ClientDbInitDone
  \/ ClientAccessDone
  \/ ClientProcessDone

SpecCalls == Init /\ [][NextCalls]_vars

\* the startup sequence together with a caller of waitForReady
NextWait ==
  \/ \E dirs \in DirLists : attempts[MaxWaitAttempts].pc = "idle" /\ Initialize(dirs)
  \/ \E a \in AttemptIds : EmbeddingDone(a)
  \/ \E a \in AttemptIds : ConnectorDone(a)
  \/ \E a \in AttemptIds : DbServiceDone(a)
  \/ \E a \in AttemptIds : ProcessorDone(a)
  \/ \E a \in AttemptIds : WatchDone(a)
  \/ Reset
  \/ \E t \in 0..MaxTimeout : WaitForReady(t)
  \/ TimeoutFires
  \/ CheckReady
  \/ Tick

SpecWait == Init /\ [][NextWait]_vars

\* -----------------------------------------------------------------
\* Readiness gates of the public operations (checked under SpecCalls)
\* -----------------------------------------------------------------
\* C1 as stated: every public operation invoked while the manager's
\* initializationState is not 'complete' is rejected as not initialized
\* and calls neither the model, the table nor the pipeline
C1_RejectedUntilComplete ==
  (lastCall.op # "none" /\ lastCall.state # "complete") =>
    (lastCall.result = "rejected" /\ lastCall.calls = {})

OwnServiceReady(c) ==
  CASE c.op \in EmbeddingOps -> c.embedding
    [] c.op \in StoreOps -> c.database
    [] c.op \in ProcessorOps -> c.processor

\* C1 amended: a gated operation is rejected as not initialized, without
\* any model, table or pipeline call, exactly when its own service's
\* isReady flag is false at the call, whatever the manager's state; an
\* admitted one reaches only initialized collaborators; watchDirectory and
\* processFile are never rejected as not initialized
C1_RejectedUntilOwnServiceReady ==
  /\ lastCall.op \in GatedOps =>
       /\ lastCall.result = "rejected" <=> ~OwnServiceReady(lastCall)
       /\ lastCall.result = "rejected" => lastCall.calls = {}
       /\ lastCall.result = "performed" =>
            /\ "model" \in lastCall.calls => lastCall.embedding
            /\ "table" \in lastCall.calls => lastCall.database
            /\ lastCall.op = "processDocument" =>
                 {"model", "table"} \subseteq lastCall.calls
  /\ lastCall.op \in WatcherOps => lastCall.result # "rejected"

\* an operation served while the manager is not 'complete'
C1_Witness ==
  /\ lastCall.op = "upsertChunks"
  /\ lastCall.result = "performed"
  /\ lastCall.state = "failed"

\* -----------------------------------------------------------------
\* waitForReady (checked under SpecWait)
\* -----------------------------------------------------------------
\* C6: a waitForReady(t) call settles one way only: it resolves only at a
\* moment when the manager is ready; it rejects with the
\* initialization-failure error when initialization has failed, already
\* at the call or noticed by a later poll; otherwise it rejects with the
\* timeout error, and only once t has elapsed
C6_WaitForReadyOutcome ==
  /\ waiter.outcome = "resolved" => waiter.settleReady
  /\ waiter.callFailed => waiter.outcome = "failed"
  /\ waiter.outcome = "failed" => waiter.settleFailed
  /\ waiter.outcome = "timeout" => waiter.elapsed >= waiter.t

\* -----------------------------------------------------------------
\* Properties of the ReadinessManager (checked under Spec)
\* -----------------------------------------------------------------
Started(a) == attempts[a].pc = "idle" /\ attempts'[a].pc # "idle"
Finished(a) == attempts[a].pc # "done" /\ attempts'[a].pc = "done"
Failed(a) == attempts[a].pc # "failed" /\ attempts'[a].pc = "failed"
LastEvent(a) == attempts'[a].trace[Len(attempts'[a].trace)]
IsPrefix(s, t) == Len(s) <= Len(t) /\ s = SubSeq(t, 1, Len(s))

\* C2: at most one performInitialization activation is in progress at any
\* time (a second initialize() while one is in flight starts nothing new)
C2_SingleAttemptInFlight ==
  Cardinality({a \in AttemptIds : InFlight(a)}) <= 1

\* the order of events the startup sequence must follow for a directory list
WatchSteps(dirs) ==
  [i \in 1..(2 * Len(dirs)) |->
     IF i % 2 = 1 THEN Ev("invoke", dirs[(i + 1) \div 2])
                  ELSE Ev("watched", dirs[i \div 2])]

StartupOrder(dirs) ==
  <<Ev("started", "embedding"), Ev("invoke", "embedding"), Ev("ready", "embedding"),
    Ev("started", "database"), Ev("invoke", "connector"), Ev("invoke", "dbService"),
    Ev("ready", "database"),
    Ev("started", "documentProcessor"), Ev("invoke", "documentProcessor"),
    Ev("ready", "documentProcessor")>>
  \o (IF dirs = <<>> THEN <<>>
      ELSE <<Ev("started", "directoryWatcher")>> \o WatchSteps(dirs)
           \o <<Ev("ready", "directoryWatcher")>>)
  \o <<Ev("complete", "all")>>

\* the startup order of every directory list, computed once
StartupOrders == [dirs \in DirLists |-> StartupOrder(dirs)]

LastService(dirs) == IF dirs = <<>> THEN "documentProcessor" ELSE "directoryWatcher"

\* what an attempt has done so far, without the closing failure event
Progress(att) ==
  IF att.pc = "failed" THEN SubSeq(att.trace, 1, Len(att.trace) - 1) ELSE att.trace

\* C3: within an attempt the services are started strictly in the order
\* embedding, database (connector, then table service), documentProcessor,
\* directoryWatcher, each only after the earlier ones were recorded ready;
\* the watcher step exists only for a non-empty directory list and takes
\* the directories one after another; the state becomes 'complete' only
\* when an attempt has run the whole order and recorded its last service
C3_StartupOrder ==
  [][ /\ \A a \in AttemptIds :
           /\ IsPrefix(Progress(attempts'[a]), StartupOrders[attempts'[a].dirs])
           /\ Finished(a) =>
                /\ attempts'[a].trace = StartupOrders[attempts'[a].dirs]
                /\ status'.initializationState = "complete"
                /\ status'.services[LastService(attempts'[a].dirs)] = "ready"
      /\ (status.initializationState # "complete"
          /\ status'.initializationState = "complete")
           => \E a \in AttemptIds : Finished(a)
    ]_vars

C3_Witness ==
  \E a \in AttemptIds :
    /\ attempts[a].pc = "done"
    /\ attempts[a].dirs = <<"d1", "d2">>
    /\ status.initializationState = "complete"
    /\ status.services["directoryWatcher"] = "ready"

\* the service a failing step belongs to
ServiceOfStep(step) ==
  CASE step = "embedding" -> "embedding"
    [] step \in {"connector", "dbService"} -> "database"
    [] step = "watch" -> "directoryWatcher"
    [] OTHER -> "none"

ServiceIndex(s) == CHOOSE i \in 1..4 : ServiceOrder[i] = s

\* C4: when a startup step fails, exactly the service of that step is
\* recorded not ready with the error, every earlier service is recorded
\* ready, no later service is recorded, isReady is false, the state is
\* 'failed' with initializationError set and the attempt's promise rejects
C4_FailureRecorded ==
  [][ \A a \in AttemptIds :
        (Failed(a) /\ ServiceOfStep(LastEvent(a).x) # "none") =>
          LET msg == LastEvent(a).x
              k == ServiceIndex(ServiceOfStep(msg))
          IN /\ status'.services[ServiceOrder[k]] = "notready"
             /\ status'.errors[ServiceOrder[k]] = msg
             /\ \A j \in 1..4 :
                  /\ j < k => status'.services[ServiceOrder[j]] = "ready"
                  /\ j > k => status'.services[ServiceOrder[j]] = "absent"
             /\ ~isReady'
             /\ ~status'.isReady
             /\ status'.initializationState = "failed"
             /\ status'.initializationError = msg
    ]_vars

\* C5: once the state is 'failed' it is frozen until reset(): every step
\* other than reset() leaves initializationState 'failed',
\* hasInitializationFailed() true, isInitialized() false and the recorded
\* services and initializationError unchanged
C5_FailedFrozenUntilReset ==
  [][ (status.initializationState = "failed" /\ ~Reset) =>
        /\ status' = status
        /\ initializationFailed'
        /\ ~isReady'
    ]_vars

ManagerInitial ==
  /\ ~isReady
  /\ ~initializationFailed
  /\ initializationPromise = NULL
  /\ status = InitialStatus

\* C7: a failing attempt clears the stored promise; reset() restores
\* exactly the initial manager state; from that state initialize() starts a
\* fresh attempt at the first step of the startup order (which can then run
\* to 'complete', see the witness)
C7_ResetThenRetry ==
  [][ /\ \A a \in AttemptIds : Failed(a) => initializationPromise' = NULL
      /\ Reset => ManagerInitial'
      /\ \A a \in AttemptIds :
           (ManagerInitial /\ Started(a)) =>
             /\ initializationPromise' = a
             /\ attempts'[a].pc = "embedding"
             /\ status' = RecordStarted(InitialStatus, "embedding")
             /\ ~isReady' /\ ~initializationFailed'
      /\ (ManagerInitial /\ \A a \in AttemptIds : ~InFlight(a))
           => (ENABLED (\E dirs \in DirLists : Initialize(dirs))
               \/ \A a \in AttemptIds : attempts[a].pc # "idle")
    ]_vars

\* a run that failed, was reset, was initialized again and reached 'complete'
C7_Witness ==
  \E a, b \in AttemptIds :
    /\ a < b
    /\ attempts[a].pc = "failed"
    /\ attempts[b].pc = "done"
    /\ isReady /\ ~initializationFailed
    /\ status.initializationState = "complete"
    /\ \A i \in 1..3 : status.services[ServiceOrder[i]] = "ready"

\* ------------------------------------------- filesystem events (C8-C10)
\* the state after initialize(<<"d1">>) has completed: every service is
\* ready and the watcher on d1 has its event handlers attached
InitWatch ==
  /\ embeddingIsReady = TRUE
  /\ connectorIsReady = TRUE
  /\ dbIsReady = TRUE
  /\ processorIsReady = TRUE
  /\ isReady = TRUE
  /\ status = [ isReady |-> TRUE,
                services |-> [s \in ServiceNames |-> "ready"],
                errors |-> [s \in ServiceNames |-> "none"],
                initializationState |-> "complete",
                initializationError |-> "none" ]
  /\ initializationPromise = 1
  /\ initializationFailed = FALSE
  /\ attempts = [a \in AttemptIds |->
                   IF a = 1
                   THEN [ pc |-> "done", dirs |-> <<"d1">>, idx |-> 1, real |-> FALSE,
                          trace |-> StartupOrder(<<"d1">>) ]
                   ELSE IdleAttempt]
  /\ watchedDirs = {"d1"}
  /\ watcher = "d1"
  /\ isWatching = TRUE
  /\ chokidars = <<[dir |-> "d1", open |-> TRUE]>>
  /\ watcherRef = 1
  /\ OtherInit
  /\ lastCall = NoCall
  /\ client = NoClient
  /\ waiter = NoWaiter
  /\ debouncedProcessFile = IdleDebounce
  /\ debouncedDeleteFile = IdleDebounce
  /\ handlers = <<>>
  /\ emitted = <<>>

\* the running watcher: events, the debounce timers, the handlers
NextWatch ==
  \/ \E ev \in EventKinds, f \in AllowedFiles : Emit(ev, f)
  \/ ProcessTimerExpired
  \/ DeleteTimerExpired
  \/ \E h \in 1..Len(handlers) : DeleteDone(h)
  \/ \E h \in 1..Len(handlers) : ProcessDone(h)
  \/ TickWatch

SpecWatch == InitWatch /\ [][NextWatch]_vars

\* the calls a finished or running handler may have made, by event kind
CallsOfEvent(ev) ==
  IF ev = "add"
  THEN { <<"processDocument", "processed">>, <<"processDocument", "processFailed">> }
  ELSE IF ev = "change"
  THEN { <<"deleteDocument", "deleted", "processDocument", "processed">>,
         <<"deleteDocument", "deleted", "processDocument", "processFailed">>,
         <<"deleteDocument", "deleteFailed">> }
  ELSE { <<"deleteDocument", "deleted">>, <<"deleteDocument", "deleteFailed">> }

Last(q) == q[Len(q)]

\* a handler run serves the event that called the debounced function last
\* and makes the calls of that event's kind, in their order
HandlerFollowsPolicy(r) ==
  /\ r.ev = Last(r.burst).ev /\ r.path = Last(r.burst).path
  /\ r.calls # <<>>
  /\ \E full \in CallsOfEvent(r.ev) : IsPrefix(r.calls, full)
  /\ r.pc = "done" => r.calls \in CallsOfEvent(r.ev)

\* nothing is pending: no debounce timer runs and every handler has finished
Quiescent ==
  /\ ~debouncedProcessFile.timer
  /\ ~debouncedDeleteFile.timer
  /\ \A h \in 1..Len(handlers) : handlers[h].pc = "done"

\* the debounced function an event kind goes to
HandlerKind(ev) == IF ev = "unlink" THEN "delete" ELSE "process"

\* C8: an add event for path p leads to processDocument(p) with no
\* preceding delete, a change event for p to deleteDocument(p) and only
\* after that delete has completed to processDocument(p), an unlink event
\* for p to deleteDocument(p) only: every handler run makes the calls of
\* its event's kind in that order, and once everything pending has run
\* every reported event has had the handler of its kind run for its path
C8_EventLeadsToCalls ==
  /\ \A h \in 1..Len(handlers) : HandlerFollowsPolicy(handlers[h])
  /\ Quiescent =>
       \A i \in 1..Len(emitted) :
         \E h \in 1..Len(handlers) :
           /\ handlers[h].kind = HandlerKind(emitted[i].ev)
           /\ handlers[h].path = emitted[i].path

\* the part of C8 that holds: the calls made by each handler run
EveryHandlerFollowsPolicy ==
  \A h \in 1..Len(handlers) : HandlerFollowsPolicy(handlers[h])

\* C9: debouncing never merges or drops events of different paths: of the
\* events that arrived within one debounce window, every path has its
\* handler executed, in the run the window ends with or in a later one,
\* once everything pending has run
C9_NoPathDropped ==
  Quiescent =>
    \A h \in 1..Len(handlers) :
      \A i \in 1..Len(handlers[h].burst) :
        \E g \in h..Len(handlers) :
          /\ handlers[g].kind = handlers[h].kind
          /\ handlers[g].path = handlers[h].burst[i].path

\* the number of processDocument calls a handler run made
ProcessCalls(r) ==
  Cardinality({k \in 1..Len(r.calls) : r.calls[k] = "processDocument"})

\* C10: the add/change events of one debounce window result in exactly one
\* processDocument call for each path they name, started only when the
\* debounce delay has passed since the last of them (stated for the runs
\* whose deleteDocument, if any, succeeded)
C10_OneProcessPerPath ==
  \A h \in 1..Len(handlers) :
    LET r == handlers[h]
    IN (r.kind = "process" /\ r.pc = "done"
        /\ "deleteFailed" \notin {r.calls[k] : k \in 1..Len(r.calls)})
       => /\ r.waited = DebounceTicks
          /\ \A i \in 1..Len(r.burst) :
               r.burst[i].path = r.path /\ ProcessCalls(r) = 1

\* C11: two handler executions for the same path never overlap: when a
\* handler run for a path exists, every earlier run for that path has
\* finished its deleteDocument/processDocument calls
C11_SamePathSerialized ==
  \A h, g \in 1..Len(handlers) :
    (h < g /\ handlers[h].path = handlers[g].path) => handlers[h].pc = "done"

\* the handler run h catches a failure of its pipeline call in this step
HandlerFails(h) ==
  /\ h <= Len(handlers)
  /\ handlers[h].pc \in {"deleting", "processing"}
  /\ Len(handlers'[h].calls) = Len(handlers[h].calls) + 1
  /\ Last(handlers'[h].calls) \in {"deleteFailed", "processFailed"}

\* C12: a failure of deleteDocument or processDocument inside a handler
\* is caught there: the handler run ends normally and never rejects, the
\* watcher stays open and active, and the debounce timers, the other
\* handler runs and the reported events are left as they were, so that
\* later events are handled as without the failure
C12_FailureContained ==
  [][ /\ \A h \in 1..Len(handlers') : handlers'[h].pc # "rejected"
      /\ \A h \in 1..MaxEvents :
           HandlerFails(h) =>
             /\ handlers'[h].pc = "done"
             /\ watcher' = watcher /\ watcher' # NoWatcher
             /\ isWatching' /\ watchedDirs' = watchedDirs
             /\ UNCHANGED <<debouncedProcessFile, debouncedDeleteFile, emitted>>
             /\ Len(handlers') = Len(handlers)
             /\ \A g \in 1..Len(handlers) : g # h => handlers'[g] = handlers[g]
    ]_vars

\* a handler run failed, and an event for another path that arrived after
\* the failure has been handled successfully
C12_Witness ==
  \E h, g \in 1..Len(handlers) :
    /\ h < g
    /\ Last(handlers[h].calls) \in {"deleteFailed", "processFailed"}
    /\ handlers[g].path # handlers[h].path
    /\ Len(handlers[g].burst) = 1
    /\ handlers[g].pc = "done"
    /\ Last(handlers[g].calls) = "processed"

\* ------------------------- watchDirectory and stopWatching, step by step
DirCallRunning(c) == dirCalls[c].pc \in {"access", "closing", "stopping"}

NoDirCallRunning == \A c \in DirCallIds : ~DirCallRunning(c)

\* chokidar.watch(dirPath, ...) and setupEventHandlers()
CreateWatcher(ws, dir) ==
  /\ chokidars' = Append(ws, [dir |-> dir, open |-> TRUE])
  /\ watcherRef' = Len(ws) + 1
  /\ watcher' = dir
  /\ isWatching' = TRUE

\* a caller enters watchDirectory(dir): the processor is ready, so it goes on
\* to await fs.promises.access
DirWatchStart(c, dir) ==
  /\ dirCalls[c].pc = "idle"
  /\ processorIsReady
  /\ dirCalls' = [dirCalls EXCEPT ![c] = [pc |-> "access", op |-> "watch", dir |-> dir, target |-> NULL]]
  /\ UNCHANGED <<serviceVars, managerVars, dirWatcherVars, callVars, eventVars, serverVars, storeVars, searchVars, laterVars>>

\* fs.promises.access returns or throws; on success the directory is
\* tracked, and the existing watcher, if any, is asked to close
DirAccessDone(c) ==
  /\ dirCalls[c].pc = "access"
  /\ \E ok \in BOOLEAN :
       IF ~ok
       THEN /\ dirCalls' = [dirCalls EXCEPT ![c].pc = "failed"]
            /\ UNCHANGED dirWatcherVars
       ELSE /\ watchedDirs' = watchedDirs \cup {dirCalls[c].dir}
            /\ IF HasWatcher(watcherRef)
               THEN /\ dirCalls' = [dirCalls EXCEPT ![c].pc = "closing", ![c].target = watcherRef]
                    /\ UNCHANGED <<watcher, isWatching, chokidars, watcherRef>>
               ELSE /\ CreateWatcher(chokidars, dirCalls[c].dir)
                    /\ dirCalls' = [dirCalls EXCEPT ![c].pc = "done"]
  /\ UNCHANGED <<serviceVars, managerVars, callVars, eventVars, serverVars, storeVars, searchVars, laterVars>>

\* await this.watcher.close() inside watchDirectory returns or throws; on
\* success this.watcher = null and the new watcher is created
DirCloseDone(c) ==
  /\ dirCalls[c].pc = "closing"
  /\ \E ok \in BOOLEAN :
       IF ~ok
       THEN /\ dirCalls' = [dirCalls EXCEPT ![c].pc = "failed"]
            /\ UNCHANGED <<watcher, isWatching, chokidars, watcherRef>>
       ELSE /\ CreateWatcher(CloseWatcher(chokidars, dirCalls[c].target), dirCalls[c].dir)
            /\ dirCalls' = [dirCalls EXCEPT ![c].pc = "done"]
  /\ UNCHANGED <<serviceVars, managerVars, watchedDirs, callVars, eventVars, serverVars, storeVars, searchVars, laterVars>>

\* stopWatching after its await this.watcher.close() has returned
StopWatchingEffect(target) ==
  /\ chokidars' = CloseWatcher(chokidars, target)
  /\ watcherRef' = NULL
  /\ watcher' = NoWatcher
  /\ isWatching' = FALSE
  /\ watchedDirs' = {}

\* a caller enters stopWatching(): nothing happens without a watcher
DirStopStart(c) ==
  /\ dirCalls[c].pc = "idle"
  /\ dirCalls' = [dirCalls EXCEPT ![c] =
                    IF HasWatcher(watcherRef)
                    THEN [pc |-> "stopping", op |-> "stop", dir |-> "none", target |-> watcherRef]
                    ELSE [pc |-> "done", op |-> "stop", dir |-> "none", target |-> NULL]]
  /\ UNCHANGED <<serviceVars, managerVars, dirWatcherVars, callVars, eventVars, serverVars, storeVars, searchVars, laterVars>>

\* await this.watcher.close() inside stopWatching returns or throws
DirStopDone(c) ==
  /\ dirCalls[c].pc = "stopping"
  /\ \E ok \in BOOLEAN :
       IF ~ok
       THEN /\ dirCalls' = [dirCalls EXCEPT ![c].pc = "failed"]
            /\ UNCHANGED dirWatcherVars
       ELSE /\ StopWatchingEffect(dirCalls[c].target)
            /\ dirCalls' = [dirCalls EXCEPT ![c].pc = "done"]
  /\ UNCHANGED <<serviceVars, managerVars, callVars, eventVars, serverVars, storeVars, searchVars, laterVars>>

\* DirectoryWatcher.isActive()
IsActive == isWatching

\* DirectoryWatcher.getWatchedDirectories(), as a set
GetWatchedDirectories == watchedDirs

\* the state after initialize(<<>>) has completed: every service is ready
\* and no directory is watched
InitReadyWith(rows) ==
  /\ embeddingIsReady = TRUE
  /\ connectorIsReady = TRUE
  /\ dbIsReady = TRUE
  /\ processorIsReady = TRUE
  /\ isReady = TRUE
  /\ status = [ isReady |-> TRUE,
                services |-> [s \in ServiceNames |->
                               IF s = "directoryWatcher" THEN "absent" ELSE "ready"],
                errors |-> [s \in ServiceNames |-> "none"],
                initializationState |-> "complete",
                initializationError |-> "none" ]
  /\ initializationPromise = 1
  /\ initializationFailed = FALSE
  /\ attempts = [a \in AttemptIds |->
                   IF a = 1
                   THEN [ pc |-> "done", dirs |-> <<>>, idx |-> 0, real |-> FALSE,
                          trace |-> StartupOrder(<<>>) ]
                   ELSE IdleAttempt]
  /\ watchedDirs = {}
  /\ watcher = NoWatcher
  /\ isWatching = FALSE
  /\ chokidars = <<>>
  /\ watcherRef = NULL
  /\ OtherInitWith(rows)
  /\ lastCall = NoCall
  /\ client = NoClient
  /\ waiter = NoWaiter
  /\ debouncedProcessFile = IdleDebounce
  /\ debouncedDeleteFile = IdleDebounce
  /\ handlers = <<>>
  /\ emitted = <<>>

\* the state after initialize(<<>>) has completed, the table still empty
InitReady == InitReadyWith(<<>>)

\* the next call is made when the calls before it have returned
AwaitedWatchCall(c, dir) ==
  /\ NoDirCallRunning
  /\ \A b \in 1..(c - 1) : dirCalls[b].pc # "idle"
  /\ DirWatchStart(c, dir)

AwaitedStopCall(c) ==
  /\ NoDirCallRunning
  /\ \A b \in 1..(c - 1) : dirCalls[b].pc # "idle"
  /\ DirStopStart(c)

\* callers that call watchDirectory and stopWatching one after the other,
\* each call awaited before the next is made
NextDirs ==
  \/ \E c \in DirCallIds, dir \in Dirs : AwaitedWatchCall(c, dir)
  \/ \E c \in DirCallIds : AwaitedStopCall(c)
  \/ \E c \in DirCallIds : DirAccessDone(c)
  \/ \E c \in DirCallIds : DirCloseDone(c)
  \/ \E c \in DirCallIds : DirStopDone(c)

SpecDirs == InitReady /\ [][NextDirs]_vars

\* the calls made so far have all returned without an error
AllCallsSucceeded == \A c \in DirCallIds : dirCalls[c].pc \in {"idle", "done"}

\* the last stopWatching call made so far, 0 if none
LastStop ==
  LET stops == {c \in DirCallIds : dirCalls[c].op = "stop"}
  IN IF stops = {} THEN 0 ELSE CHOOSE c \in stops : \A b \in stops : b <= c

\* the watchDirectory calls made since the last stopWatching
WatchCallsSinceStop == {c \in DirCallIds : c > LastStop /\ dirCalls[c].op = "watch"}

OpenWatchers == {w \in 1..Len(chokidars) : chokidars[w].open}

ServerInitialize(c) ==
  /\ serverCalls[c].pc = "idle"
  /\ IF serverInitialized
     THEN /\ serverCalls' = [serverCalls EXCEPT ![c] = [pc |-> "returned", run |-> server]]
          /\ UNCHANGED <<serverPromise, server, serverRuns>>
     ELSE IF serverPromise # NULL
     THEN /\ serverCalls' = [serverCalls EXCEPT ![c] = [pc |-> "joined", run |-> serverPromise]]
          /\ UNCHANGED <<serverPromise, server, serverRuns>>
     ELSE \E r \in ServerRunIds :
            /\ serverRuns[r].pc = "idle"
            /\ \A q \in 1..(r - 1) : serverRuns[q].pc # "idle"
            /\ serverRuns' = [serverRuns EXCEPT ![r].pc = "awaiting"]
            /\ server' = r
            /\ serverPromise' = r
            /\ serverCalls' = [serverCalls EXCEPT ![c] = [pc |-> "started", run |-> r]]
  /\ UNCHANGED <<serviceVars, managerVars, dirWatcherVars, callVars, eventVars,
                 dirCallVars, storeVars, searchVars, laterVars, serverInitialized, term>>

\* the dependenciesReady promise of a run settles
DepsSettle(r, ok) ==
  /\ serverRuns[r].pc = "awaiting"
  /\ serverRuns[r].deps = "pending"
  /\ serverRuns' = [serverRuns EXCEPT ![r].deps = IF ok THEN "resolved" ELSE "rejected"]
  /\ UNCHANGED <<serviceVars, managerVars, dirWatcherVars, callVars, eventVars,
                 dirCallVars, storeVars, searchVars, laterVars, serverInitialized, serverPromise, server, serverCalls, term>>

\* an await that treats every settled promise as resolved
DepsAlwaysOk(r) == TRUE

\* the outcome of "await dependenciesReady"
DepsOk(r) == serverRuns[r].deps = "resolved"

\* performInitialization resumes: register the features and set
\* initialized, or clear the stored promise and rethrow
PerformResume(r) ==
  /\ serverRuns[r].pc = "awaiting"
  /\ serverRuns[r].deps # "pending"
  /\ IF DepsOk(r)
     THEN /\ serverRuns' = [serverRuns EXCEPT ![r].registered = TRUE, ![r].pc = "done"]
          /\ serverInitialized' = TRUE
          /\ UNCHANGED serverPromise
     ELSE /\ serverRuns' = [serverRuns EXCEPT ![r].pc = "failed"]
          /\ serverPromise' = NULL
          /\ UNCHANGED serverInitialized
  /\ UNCHANGED <<serviceVars, managerVars, dirWatcherVars, callVars, eventVars,
                 dirCallVars, storeVars, searchVars, laterVars, server, serverCalls, term>>

\* McpServerInstance.isInitialized()
ServerIsInitialized == serverInitialized

\* getServer() throws unless initialized
GetServerThrows == ~serverInitialized

\* terminate(): nothing to do unless initialized; else await the import of
\* the directory watcher module
TerminateStart ==
  /\ term.pc \in {"idle", "done"}
  /\ term.n < MaxTerminations
  /\ term' = IF serverInitialized
             THEN [pc |-> "import", n |-> term.n + 1, target |-> NULL, log |-> <<>>]
             ELSE [pc |-> "done", n |-> term.n + 1, target |-> NULL, log |-> <<"nothing">>]
  /\ UNCHANGED <<serviceVars, managerVars, dirWatcherVars, callVars, eventVars,
                 dirCallVars, storeVars, searchVars, laterVars, serverInitialized, serverPromise, server, serverRuns, serverCalls>>

\* if (directoryWatcher.isActive()) await directoryWatcher.stopWatching()
TerminateWatcher ==
  /\ term.pc = "import"
  /\ term' = IF IsActive
             THEN IF HasWatcher(watcherRef)
                  THEN [term EXCEPT !.pc = "stopping", !.target = watcherRef,
                                    !.log = Append(@, "stop")]
                  ELSE [term EXCEPT !.pc = "closing", !.log = Append(@, "stop")]
             ELSE [term EXCEPT !.pc = "closing"]
  /\ UNCHANGED <<serviceVars, managerVars, dirWatcherVars, callVars, eventVars,
                 dirCallVars, storeVars, searchVars, laterVars, serverInitialized, serverPromise, server, serverRuns, serverCalls>>

\* a terminate() that lets the failure of stopWatching escape
TerminateRethrows(t) == [t EXCEPT !.pc = "rejected", !.log = Append(@, "stopFailed")]

\* a failure of stopWatching is caught and logged as a warning
TerminateCatch(t) == [t EXCEPT !.pc = "closing", !.log = Append(@, "stopFailed")]

\* the close() awaited by stopWatching returns or throws
TerminateStopDone ==
  /\ term.pc = "stopping"
  /\ \E ok \in BOOLEAN :
       IF ok
       THEN /\ StopWatchingEffect(term.target)
            /\ term' = [term EXCEPT !.pc = "closing"]
       ELSE /\ term' = TerminateCatch(term)
            /\ UNCHANGED dirWatcherVars
  /\ UNCHANGED <<serviceVars, managerVars, callVars, eventVars,
                 dirCallVars, storeVars, searchVars, laterVars, serverInitialized, serverPromise, server, serverRuns, serverCalls>>

\* if (dbConnector.isInitialized()) await dbConnector.close(): the
\* connection is dropped and the connector is no longer ready
TerminateClose ==
  /\ term.pc = "closing"
  /\ IF connectorIsReady
     THEN /\ connectorIsReady' = FALSE
          /\ term' = [term EXCEPT !.pc = "closed", !.log = Append(@, "close")]
     ELSE /\ term' = [term EXCEPT !.pc = "closed"]
          /\ UNCHANGED connectorIsReady
  /\ UNCHANGED <<embeddingIsReady, dbIsReady, processorIsReady, managerVars, dirWatcherVars,
                 callVars, eventVars, dirCallVars, storeVars, searchVars, laterVars, serverInitialized, serverPromise, server,
                 serverRuns, serverCalls>>

\* this.initialized = false; this.initializationPromise = null
TerminateFinish ==
  /\ term.pc = "closed"
  /\ serverInitialized' = FALSE
  /\ serverPromise' = NULL
  /\ term' = [term EXCEPT !.pc = "done"]
  /\ UNCHANGED <<serviceVars, managerVars, dirWatcherVars, callVars, eventVars,
                 dirCallVars, storeVars, searchVars, laterVars, server, serverRuns, serverCalls>>

\* the MCP server over ready services: callers of initialize and terminate,
\* and a caller that may start watching a directory
NextServer ==
  \/ \E c \in ServerCallIds : ServerInitialize(c)
  \/ \E r \in ServerRunIds, ok \in BOOLEAN : DepsSettle(r, ok)
  \/ \E r \in ServerRunIds : PerformResume(r)
  \/ TerminateStart
  \/ TerminateWatcher
  \/ TerminateStopDone
  \/ TerminateClose
  \/ TerminateFinish
  \/ DirWatchStart(1, "d1")
  \/ DirAccessDone(1)

SpecServer == InitReady /\ [][NextServer]_vars

\* the steps terminate() may have taken so far, in their order
TerminateLogs ==
  { <<>>, <<"nothing">>, <<"stop">>, <<"stop", "stopFailed">>, <<"close">>,
    <<"stop", "close">>, <<"stop", "stopFailed", "close">> }

\* C14: terminate() on an initialized server first stops the directory
\* watcher if it is active, then closes the store connection if the connector
\* is initialized; a failure to stop the watcher is contained and the close is
\* still attempted; terminate() never rejects, and it ends with the server
\* not initialized and no stored promise.
C14_TerminateOrder ==
  [][ /\ term'.pc # "rejected"
      /\ term'.log \in TerminateLogs
      /\ (term.pc = "import" /\ term'.pc # "import") =>
           /\ IsActive => Last(term'.log) = "stop"
           /\ ~IsActive => term'.log = <<>>
      /\ (term.pc = "stopping" /\ term'.pc # "stopping") => term'.pc = "closing"
      /\ (term.pc = "closing" /\ term'.pc # "closing") =>
           /\ term'.pc = "closed"
           /\ connectorIsReady => (~connectorIsReady' /\ Last(term'.log) = "close")
           /\ ~connectorIsReady => term'.log = term.log
      /\ (term.pc = "closed" /\ term'.pc # "closed") =>
           /\ term'.pc = "done"
           /\ ~ServerIsInitialized' /\ serverPromise' = NULL
    ]_vars

\* a terminate() during which stopping the watcher failed has closed the
\* connection and finished
C14_Witness ==
  /\ term.pc = "done"
  /\ term.log = <<"stop", "stopFailed", "close">>
  /\ ~serverInitialized
  /\ ~connectorIsReady

RunsAwaiting == {r \in ServerRunIds : serverRuns[r].pc = "awaiting"}

GenerateDocumentId(path) ==
  CASE path = "a.txt" -> "doc_0cc175b9c0f1"
    [] path = "b.txt" -> "doc_92eb5ffee6ae"
    [] OTHER -> "doc_9dd4e461268c"

\* the number of chunks the splitter makes of a file: the first version of
\* a.txt needs more than one batch
ChunkCount(path, version) ==
  IF path = "a.txt" /\ version = "original" THEN BatchSize + 1
  ELSE IF path = "b.txt" /\ version = "rewritten" THEN 0 ELSE 1

\* chunkDocument: chunkIndex counts from 0, chunkId is documentId_chunk<index>
ChunkDocument(path, version) ==
  [ k \in 1..ChunkCount(path, version) |->
      [ chunkId |-> <<GenerateDocumentId(path), "_chunk", k - 1>>,
        documentId |-> GenerateDocumentId(path),
        chunkIndex |-> k - 1,
        content |-> <<path, version, k - 1>> ] ]

\* the rows a filter "document_id = '<id>'" selects, and the others
RowsOf(rows, id) == SelectSeq(rows, LAMBDA r : r.documentId = id)

\* a delete that removes nothing
KeepRows(rows, id) == rows

RowsNotOf(rows, id) == SelectSeq(rows, LAMBDA r : r.documentId # id)

\* table.countRows("document_id = '<id>'")
CountRows(id) == Len(RowsOf(table, id))

Min(a, b) == IF a < b THEN a ELSE b

\* chunks.slice(i, i + batchSize)
\* a slice that takes every chunk at once
WholeList(chunks, i) == chunks

Batch(chunks, i) == SubSeq(chunks, i + 1, Min(i + BatchSize, Len(chunks)))

\* a call of processDocument (op "process"), of deleteDocument (op
\* "delete"), or of the change handler's deleteDocument followed by
\* processDocument (op "change"); the gates of the processor and the store
\* let it pass or throw
StartTask(t, op, path) ==
  /\ tasks[t].pc = "idle"
  /\ tasks' = [tasks EXCEPT ![t] =
       [ IdleTask EXCEPT !.op = op, !.path = path,
           !.pc = IF ~ProcessorGate THEN "failed"
                  ELSE IF op = "process" THEN "load"
                  ELSE IF StoreGate THEN "count" ELSE "failed" ]]
  /\ UNCHANGED <<serviceVars, managerVars, dirWatcherVars, callVars, eventVars,
                 dirCallVars, serverVars, searchVars, laterVars, table, files>>

\* fs.stat, fs.readFile, the loader and chunkDocument: they fail, or give the
\* chunks of the file as it is on disk
ProcessLoad(t, ok) ==
  /\ tasks[t].pc = "load"
  /\ tasks' = [tasks EXCEPT ![t] =
       IF ok /\ StoreGate
       THEN [@ EXCEPT !.pc = IF ChunkCount(tasks[t].path, files[tasks[t].path]) = 0
                             THEN "optimize" ELSE "embed",
                      !.i = 0,
                      !.chunks = ChunkDocument(tasks[t].path, files[tasks[t].path])]
       ELSE FailedTask(@)]
  /\ UNCHANGED <<serviceVars, managerVars, dirWatcherVars, callVars, eventVars,
                 dirCallVars, serverVars, searchVars, laterVars, table, files>>

\* Promise.all of embedText over the chunks of the batch
UpsertEmbed(t, ok) ==
  /\ tasks[t].pc = "embed"
  /\ LET batch == Batch(tasks[t].chunks, tasks[t].i)
     IN tasks' = [tasks EXCEPT ![t] =
          IF ok THEN [@ EXCEPT !.pc = "add", !.log = Append(tasks[t].log, Did("embed", batch))]
          ELSE FailedUpsert(@, Did("embedFailed", batch))]
  /\ UNCHANGED <<serviceVars, managerVars, dirWatcherVars, callVars, eventVars,
                 dirCallVars, serverVars, searchVars, laterVars, table, files>>

\* table.add(processedData) appends the batch, or fails and appends nothing
UpsertAdd(t, ok) ==
  /\ tasks[t].pc = "add"
  /\ IF ok
     THEN /\ table' = table \o Batch(tasks[t].chunks, tasks[t].i)
          /\ tasks' = [tasks EXCEPT ![t].i = @ + BatchSize,
                         ![t].pc = IF tasks[t].i + BatchSize < Len(tasks[t].chunks)
                                   THEN "embed" ELSE "optimize",
                         ![t].log = Append(@, Did("add", Batch(tasks[t].chunks, tasks[t].i)))]
     ELSE /\ tasks' = [tasks EXCEPT ![t] =
                         FailedUpsert(@, Did("addFailed", Batch(tasks[t].chunks, tasks[t].i)))]
          /\ UNCHANGED table
  /\ UNCHANGED <<serviceVars, managerVars, dirWatcherVars, callVars, eventVars,
                 dirCallVars, serverVars, searchVars, laterVars, files>>

\* table.optimize(): its failure is logged and ignored
UpsertOptimize(t, ok) ==
  /\ tasks[t].pc = "optimize"
  /\ tasks' = [tasks EXCEPT ![t].pc = "done", ![t].result = Len(tasks[t].chunks),
                             ![t].log = Append(@, Did(IF ok THEN "optimize" ELSE "optimizeFailed",
                                                      <<>>))]
  /\ UNCHANGED <<serviceVars, managerVars, dirWatcherVars, callVars, eventVars,
                 dirCallVars, serverVars, searchVars, laterVars, table, files>>

\* deleteDocument: countRows returns the count or fails; with no matching
\* row no delete is issued
DeleteCount(t, ok) ==
  /\ tasks[t].pc = "count"
  /\ LET count == CountRows(GenerateDocumentId(tasks[t].path))
     IN tasks' = [tasks EXCEPT ![t] =
          IF ~ok THEN FailedTask(@)
          ELSE IF count > 0 THEN [@ EXCEPT !.pc = "delete", !.count = count]
          ELSE IF @.op = "delete" THEN [@ EXCEPT !.pc = "done", !.count = 0, !.result = 0]
          ELSE [@ EXCEPT !.pc = "load", !.count = 0]]
  /\ UNCHANGED <<serviceVars, managerVars, dirWatcherVars, callVars, eventVars,
                 dirCallVars, serverVars, searchVars, laterVars, table, files>>

\* table.delete("document_id = '<id>'") removes the rows that match now, or
\* fails; deleteDocument returns the count taken before
DeleteRows(t, ok) ==
  /\ tasks[t].pc = "delete"
  /\ LET id == GenerateDocumentId(tasks[t].path)
     IN IF ok
        THEN /\ table' = RowsNotOf(table, id)
             /\ tasks' = [tasks EXCEPT ![t] =
                  IF @.op = "delete"
                  THEN [@ EXCEPT !.pc = "done", !.result = tasks[t].count]
                  ELSE [@ EXCEPT !.pc = "load"]]
        ELSE /\ tasks' = [tasks EXCEPT ![t] = FailedTask(@)]
             /\ UNCHANGED table
  /\ UNCHANGED <<serviceVars, managerVars, dirWatcherVars, callVars, eventVars,
                 dirCallVars, serverVars, searchVars, laterVars, files>>

\* the file is rewritten on disk
FileChange(path) ==
  /\ files[path] = "original"
  /\ files' = [files EXCEPT ![path] = "rewritten"]
  /\ UNCHANGED <<serviceVars, managerVars, dirWatcherVars, callVars, eventVars,
                 dirCallVars, serverVars, searchVars, laterVars, table, tasks>>

TaskOps == {"process", "delete", "change"}

\* the executions are numbered in the order of their calls
NextTask(t, op, path) ==
  /\ \A u \in 1..(t - 1) : tasks[u].pc # "idle"
  /\ StartTask(t, op, path)

\* the store over ready services: calls of processDocument and
\* deleteDocument made by processFile and by the watcher's handlers, which
\* may overlap
NextStore ==
  \/ \E t \in TaskIds, op \in TaskOps, path \in AllowedFiles : NextTask(t, op, path)
  \/ \E t \in TaskIds, ok \in BOOLEAN : ProcessLoad(t, ok)
  \/ \E t \in TaskIds, ok \in BOOLEAN : UpsertEmbed(t, ok)
  \/ \E t \in TaskIds, ok \in BOOLEAN : UpsertAdd(t, ok)
  \/ \E t \in TaskIds, ok \in BOOLEAN : UpsertOptimize(t, ok)
  \/ \E t \in TaskIds, ok \in BOOLEAN : DeleteCount(t, ok)
  \/ \E t \in TaskIds, ok \in BOOLEAN : DeleteRows(t, ok)
  \/ \E path \in AllowedFiles : FileChange(path)

SpecStore == InitReady /\ [][NextStore]_vars

TaskRunning(t) == tasks[t].pc \notin {"idle", "done", "failed"}

\* a call made when the calls before it have returned
AwaitedTask(t, op, path) ==
  /\ \A u \in TaskIds : ~TaskRunning(u)
  /\ NextTask(t, op, path)

\* the same calls made one after the other, each awaited before the next
NextStoreSeq ==
  \/ \E t \in TaskIds, op \in TaskOps, path \in AllowedFiles : AwaitedTask(t, op, path)
  \/ \E t \in TaskIds, ok \in BOOLEAN : ProcessLoad(t, ok)
  \/ \E t \in TaskIds, ok \in BOOLEAN : UpsertEmbed(t, ok)
  \/ \E t \in TaskIds, ok \in BOOLEAN : UpsertAdd(t, ok)
  \/ \E t \in TaskIds, ok \in BOOLEAN : UpsertOptimize(t, ok)
  \/ \E t \in TaskIds, ok \in BOOLEAN : DeleteCount(t, ok)
  \/ \E t \in TaskIds, ok \in BOOLEAN : DeleteRows(t, ok)
  \/ \E path \in AllowedFiles : FileChange(path)

SpecStoreSeq == InitReady /\ [][NextStoreSeq]_vars

\* C16: a deleteDocument(id) that issues its delete removes exactly the rows
\* of id, leaves the other rows as they were and returns the number of rows
\* it removed; one that finds no row returns 0 and leaves the table alone.
C16_DeleteExact ==
  [][ \A t \in TaskIds :
        /\ (tasks[t].pc = "delete" /\ tasks'[t].pc \notin {"delete", "failed"}) =>
             /\ table' = RowsNotOf(table, GenerateDocumentId(tasks[t].path))
             /\ tasks'[t].count = Len(table) - Len(table')
        /\ (tasks[t].pc = "count" /\ tasks'[t].pc \notin {"count", "failed", "delete"}) =>
             /\ tasks'[t].count = 0
             /\ table' = table
             /\ CountRows(GenerateDocumentId(tasks[t].path)) = 0
    ]_vars

\* C17: when the only call made so far is a processDocument(p) on the empty
\* table and it has failed, the table holds no chunk of documentId(p).
C17_NoPartialDocument ==
  ( /\ tasks[1].op = "process"
    /\ tasks[1].pc = "failed"
    /\ \A u \in TaskIds \ {1} : tasks[u].pc = "idle" ) =>
      RowsOf(table, GenerateDocumentId(tasks[1].path)) = <<>>

\* C18: as long as no call has failed, no two rows of the table have the
\* same chunkId.
C18_UniqueChunkIds ==
  (\A t \in TaskIds : tasks[t].pc # "failed") =>
    \A j, k \in 1..Len(table) : j # k => table[j].chunkId # table[k].chunkId

\* processDocument(p) was the first call and deleteDocument(p) followed by
\* processDocument(p) the second, both succeeded, nothing else was called and
\* the file was not rewritten
ProcessedDeletedProcessed(p) ==
  /\ tasks[1].op = "process" /\ tasks[1].path = p /\ tasks[1].pc = "done"
  /\ tasks[2].op = "change" /\ tasks[2].path = p /\ tasks[2].pc = "done"
  /\ \A u \in TaskIds \ {1, 2} : tasks[u].pc = "idle"
  /\ files[p] = "original"

\* C19: the document id is a function of the path, and deleteDocument(p)
\* followed by processDocument(p) on an unchanged file restores what the first
\* processing stored: the delete returns the number of chunks stored, and the
\* table then holds that number of rows of the document, with the same
\* chunkIds, indices and contents.
C19_DeleteProcessIdempotent ==
  \A p \in AllowedFiles :
    ProcessedDeletedProcessed(p) =>
      /\ tasks[2].count = tasks[1].result
      /\ Len(RowsOf(table, GenerateDocumentId(p))) = tasks[1].result
      /\ RowsOf(table, GenerateDocumentId(p)) = tasks[1].chunks
      /\ \A k \in 1..Len(tasks[2].chunks) :
           tasks[2].chunks[k].documentId = tasks[1].chunks[k].documentId

\* the document of more than one batch was processed, deleted and processed
\* again
C19_Witness ==
  /\ ProcessedDeletedProcessed("a.txt")
  /\ tasks[2].count = BatchSize + 1
  /\ Len(table) = BatchSize + 1

\* ------------------------------------- similaritySearch and its filter
\* A string is a sequence of symbols; the symbol "'" is the single quote.
\* `'${value}'`
Quoted(value) == <<"'">> \o value \o <<"'">>

RECURSIVE JoinQuoted(_)
\* values.map(v => `'${v}'`).join(', ')
JoinQuoted(values) ==
  IF Len(values) = 0 THEN <<>>
  ELSE IF Len(values) = 1 THEN Quoted(values[1])
  ELSE Quoted(values[1]) \o <<",">> \o JoinQuoted(Tail(values))

\* "filters.x && filters.x.length > 0" for a list, "filters.x" for a string:
\* absent fields, empty lists and empty strings add no condition
Present(field) == field.given /\ Len(field.value) > 0

\* the conditions pushed by similaritySearch, in their order
Conditions(filters) ==
  (IF Present(filters.documentIds)
   THEN << <<"document_id", "IN", "(">> \o JoinQuoted(filters.documentIds.value) \o <<")">> >>
   ELSE <<>>)
  \o (IF Present(filters.fileTypes)
      THEN << <<"file_type", "IN", "(">> \o JoinQuoted(filters.fileTypes.value) \o <<")">> >>
      ELSE <<>>)
  \o (IF Present(filters.language)
      THEN << <<"language", "=">> \o Quoted(filters.language.value) >>
      ELSE <<>>)
  \o (IF filters.dateRange.given /\ Present(filters.dateRange.start)
      THEN << <<"created_at", ">=">> \o Quoted(filters.dateRange.start.value) >>
      ELSE <<>>)
  \o (IF filters.dateRange.given /\ Present(filters.dateRange.end)
      THEN << <<"created_at", "<=">> \o Quoted(filters.dateRange.end.value) >>
      ELSE <<>>)

RECURSIVE JoinAnd(_)
\* conditions.join(' AND ')
JoinAnd(conditions) ==
  IF Len(conditions) = 0 THEN <<>>
  ELSE IF Len(conditions) = 1 THEN conditions[1]
  ELSE conditions[1] \o <<"AND">> \o JoinAnd(Tail(conditions))

\* the text given to searchQuery.where, <<>> when where is not called
WhereClause(filters) == JoinAnd(Conditions(filters))

\* The store reads the text as SQL: a quote opens a string literal, the next
\* quote closes it (two quotes in a row inside a literal stand for one quote).
Sym(c) == [kind |-> "sym", val |-> <<c>>]

Lit(v) == [kind |-> "lit", val |-> v]

LexError == <<[kind |-> "error", val |-> <<>>]>>

RECURSIVE Lex(_, _, _, _, _)
Lex(text, k, inLit, cur, out) ==
  IF k > Len(text) THEN (IF inLit THEN LexError ELSE out)
  ELSE IF inLit
  THEN IF text[k] = "'"
       THEN IF k + 1 <= Len(text) /\ text[k + 1] = "'"
            THEN Lex(text, k + 2, TRUE, Append(cur, "'"), out)
            ELSE Lex(text, k + 1, FALSE, <<>>, Append(out, Lit(cur)))
       ELSE Lex(text, k + 1, TRUE, Append(cur, text[k]), out)
  ELSE IF text[k] = "'"
       THEN Lex(text, k + 1, TRUE, <<>>, out)
       ELSE Lex(text, k + 1, FALSE, <<>>, Append(out, Sym(text[k])))

Columns == {"document_id", "file_type", "language", "created_at"}

\* the place of a timestamp in the order of strings, 0 for other strings
DateIndex(v) ==
  IF v = <<"2024">> THEN 1 ELSE IF v = <<"2025">> THEN 2 ELSE IF v = <<"2026">> THEN 3 ELSE 0

\* string comparison, over the timestamps of the model
LessEq(a, b) == DateIndex(a) > 0 /\ DateIndex(b) > 0 /\ DateIndex(a) <= DateIndex(b)

Failure == [ok |-> FALSE, v |-> FALSE, k |-> 0]

IsSym(toks, k, c) == k <= Len(toks) /\ toks[k] = Sym(c)

\* a column of the row or a literal
Operand(toks, k, row) ==
  IF k > Len(toks) THEN [ok |-> FALSE, val |-> <<>>]
  ELSE IF toks[k].kind = "lit" THEN [ok |-> TRUE, val |-> toks[k].val]
  ELSE IF toks[k].kind = "sym" /\ toks[k].val[1] \in Columns
       THEN [ok |-> TRUE, val |-> row[toks[k].val[1]]]
  ELSE [ok |-> FALSE, val |-> <<>>]

RECURSIVE InList(_, _, _)
\* 'v1', 'v2', ... ) after "IN ("
InList(toks, k, acc) ==
  IF k + 1 > Len(toks) \/ toks[k].kind # "lit" THEN [ok |-> FALSE, vals |-> {}, k |-> 0]
  ELSE IF IsSym(toks, k + 1, ")") THEN [ok |-> TRUE, vals |-> acc \cup {toks[k].val}, k |-> k + 2]
  ELSE IF IsSym(toks, k + 1, ",") THEN InList(toks, k + 2, acc \cup {toks[k].val})
  ELSE [ok |-> FALSE, vals |-> {}, k |-> 0]

RECURSIVE ParseOr(_, _, _)
RECURSIVE ParseAnd(_, _, _)
RECURSIVE ParseFactor(_, _, _)
\* ( expr ) | operand IN ( list ) | operand = operand | operand >= operand |
\* operand <= operand
ParseFactor(toks, k, row) ==
  IF IsSym(toks, k, "(")
  THEN LET e == ParseOr(toks, k + 1, row)
       IN IF e.ok /\ IsSym(toks, e.k, ")") THEN [e EXCEPT !.k = e.k + 1] ELSE Failure
  ELSE LET a == Operand(toks, k, row)
       IN IF ~a.ok THEN Failure
          ELSE IF IsSym(toks, k + 1, "IN") /\ IsSym(toks, k + 2, "(")
          THEN LET l == InList(toks, k + 3, {})
               IN IF l.ok THEN [ok |-> TRUE, v |-> a.val \in l.vals, k |-> l.k] ELSE Failure
          ELSE LET b == Operand(toks, k + 2, row)
               IN IF ~b.ok THEN Failure
                  ELSE IF IsSym(toks, k + 1, "=") THEN [ok |-> TRUE, v |-> a.val = b.val, k |-> k + 3]
                  ELSE IF IsSym(toks, k + 1, ">=") THEN [ok |-> TRUE, v |-> LessEq(b.val, a.val), k |-> k + 3]
                  ELSE IF IsSym(toks, k + 1, "<=") THEN [ok |-> TRUE, v |-> LessEq(a.val, b.val), k |-> k + 3]
                  ELSE Failure

\* factor AND factor AND ...
ParseAnd(toks, k, row) ==
  LET f == ParseFactor(toks, k, row)
  IN IF ~f.ok THEN Failure
     ELSE IF IsSym(toks, f.k, "AND")
     THEN LET r == ParseAnd(toks, f.k + 1, row)
          IN IF r.ok THEN [r EXCEPT !.v = f.v /\ r.v] ELSE Failure
     ELSE f

\* term OR term OR ...: OR binds less tightly than AND
ParseOr(toks, k, row) ==
  LET t == ParseAnd(toks, k, row)
  IN IF ~t.ok THEN Failure
     ELSE IF IsSym(toks, t.k, "OR")
     THEN LET r == ParseOr(toks, t.k + 1, row)
          IN IF r.ok THEN [r EXCEPT !.v = t.v \/ r.v] ELSE Failure
     ELSE t

\* the predicate the store makes of the text, for one row: "error" when the
\* text is not a predicate
Evaluate(text, row) ==
  LET toks == Lex(text, 1, FALSE, <<>>, <<>>)
      r == ParseOr(toks, 1, row)
  IN IF toks = LexError \/ ~r.ok \/ r.k # Len(toks) + 1 THEN "error"
     ELSE IF r.v THEN "true" ELSE "false"

\* the rows of the table the searches of the model run over
SearchRows ==
  { [document_id |-> <<"doc_a">>, file_type |-> <<"txt">>, language |-> <<"en">>, created_at |-> <<"2024">>],
    [document_id |-> <<"doc_b">>, file_type |-> <<"md">>, language |-> <<"de">>, created_at |-> <<"2026">>] }

\* similaritySearch(query, config, filters): where is called only when there
\* is a condition; a text the store cannot read makes the search throw
SimilaritySearch(filters) ==
  /\ search = NoSearch
  /\ StoreGate
  /\ LET text == WhereClause(filters)
     IN search' =
          IF text = <<>>
          THEN [filters |-> filters, where |-> text, outcome |-> "returned", result |-> SearchRows]
          ELSE IF \E row \in SearchRows : Evaluate(text, row) = "error"
          THEN [filters |-> filters, where |-> text, outcome |-> "threw", result |-> {}]
          ELSE [filters |-> filters, where |-> text, outcome |-> "returned",
                result |-> {row \in SearchRows : Evaluate(text, row) = "true"}]
  /\ UNCHANGED <<serviceVars, managerVars, dirWatcherVars, callVars, eventVars,
                 dirCallVars, serverVars, storeVars, laterVars>>

\* the filter values callers pass: plain values, and values with quotes
DocumentIdLists ==
  { Absent, Given(<<>>), Given(<< <<"doc_a">> >>), Given(<< <<"doc_a">>, <<"doc_b">> >>),
    Given(<< <<"doc_c">> >>),
    Given(<< <<"doc_c", "'", ")", "OR", "(", "'", "1", "'", "=", "'", "1">> >>) }

FileTypeLists == { Absent, Given(<<>>), Given(<< <<"txt">> >>), Given(<< <<"txt">>, <<"md">> >>) }

Languages == { Absent, Given(<<>>), Given(<<"en">>), Given(<<"fr">>), Given(<<"O", "'", "Brien">>) }

DateValues == { Absent, Given(<<>>), Given(<<"2024">>), Given(<<"2025">>), Given(<<"2026">>) }

DateRanges ==
  { [given |-> FALSE, start |-> Absent, end |-> Absent] }
    \cup [given : {TRUE}, start : DateValues, end : DateValues]

FilterInputs ==
  [documentIds : DocumentIdLists, fileTypes : FileTypeLists, language : Languages,
   dateRange : DateRanges]

\* the caller has taken the results, or the error
SearchSettled ==
  /\ search # NoSearch
  /\ search' = NoSearch
  /\ UNCHANGED <<serviceVars, managerVars, dirWatcherVars, callVars, eventVars,
                 dirCallVars, serverVars, storeVars, laterVars>>

NextSearch ==
  \/ \E filters \in FilterInputs : SimilaritySearch(filters)
  \/ SearchSettled

SpecSearch == InitReady /\ [][NextSearch]_vars

\* what the filters argument asks of a row
Satisfies(row, filters) ==
  /\ Present(filters.documentIds) =>
       \E n \in 1..Len(filters.documentIds.value) : row.document_id = filters.documentIds.value[n]
  /\ Present(filters.fileTypes) =>
       \E n \in 1..Len(filters.fileTypes.value) : row.file_type = filters.fileTypes.value[n]
  /\ Present(filters.language) => row.language = filters.language.value
  /\ (filters.dateRange.given /\ Present(filters.dateRange.start)) =>
       LessEq(filters.dateRange.start.value, row.created_at)
  /\ (filters.dateRange.given /\ Present(filters.dateRange.end)) =>
       LessEq(row.created_at, filters.dateRange.end.value)

\* no field of the filters argument asks anything
NoConstraint(filters) ==
  /\ ~Present(filters.documentIds)
  /\ ~Present(filters.fileTypes)
  /\ ~Present(filters.language)
  /\ ~(filters.dateRange.given /\ Present(filters.dateRange.start))
  /\ ~(filters.dateRange.given /\ Present(filters.dateRange.end))

\* C20: a search that returns has applied the conjunction of exactly the
\* constraints present in its filters: no predicate is applied exactly when
\* there is none, and the rows returned are the rows that satisfy every
\* constraint present.
C20_FilterIsConjunction ==
  search.outcome = "returned" =>
    /\ (search.where = <<>>) <=> NoConstraint(search.filters)
    /\ search.result = {row \in SearchRows : Satisfies(row, search.filters)}

\* ------------------------------------------------------------------
\* LanceDBService.similaritySearch: limit, order of the hits and scores
\* ------------------------------------------------------------------

\* bounds of the ranking model
MaxHits == 3
MaxK == 2

\* raw distances are counted in thousandths, scores in 1/(2 * Unit)
Unit == 1000
ScoreOne == 2 * Unit

DistanceTypes == {"cosine", "dot", "euclidean"}

\* the metric handed to the store
StoreMetric(distanceType) ==
  IF distanceType = "cosine" THEN "cosine"
  ELSE IF distanceType = "dot" THEN "dot" ELSE "l2"

\* _distance values the store reports under a metric: a cosine distance is
\* 1 - cos computed in single precision, so it runs from just under 0 to 2;
\* a dot distance has either sign; an l2 distance is never negative
RawDistances(metric) ==
  CASE metric = "cosine" -> {0 - 1, 0, Unit \div 2, Unit, 2 * Unit}
    [] metric = "dot"    -> {0 - Unit, 0 - 1, 0, Unit \div 2, Unit, 2 * Unit}
    [] OTHER             -> {0, Unit \div 2, Unit, 2 * Unit, 2 * Unit + 1}

\* Math.exp(-d) in score units, for the distances above
ExpNeg(d) ==
  CASE d = 0             -> 2000
    [] d = Unit \div 2   -> 1213
    [] d = Unit          -> 736
    [] d = 2 * Unit      -> 271
    [] OTHER             -> 270

Max(a, b) == IF a >= b THEN a ELSE b

\* the switch on config.distanceType
Score(distanceType, d) ==
  CASE distanceType = "cosine" -> ScoreOne - d
    [] distanceType = "dot"    -> Max(0, Min(ScoreOne, 2 * d))
    [] OTHER                   -> ExpNeg(d)

\* the rows matching a query, nearest first, as the store orders them
NearestFirst(metric) ==
  {hits \in UNION {[1..n -> RawDistances(metric)] : n \in 0..MaxHits} :
     \A i \in 1..Len(hits) : \A j \in 1..Len(hits) : i < j => hits[i] <= hits[j]}

\* limit(k)
Limit(hits, k) == SubSeq(hits, 1, Min(k, Len(hits)))

RetrievalInputs == [distanceType : DistanceTypes, k : 1..MaxK]

\* similaritySearch from the query builder to the mapped results
RankedSearch(config, hits) ==
  /\ ranked = NoRanked
  /\ StoreGate
  /\ ranked' = [config |-> config, hits |-> hits, outcome |-> "returned",
                results |-> [n \in 1..Len(Limit(hits, config.k)) |->
                               [distance |-> hits[n],
                                score |-> Score(config.distanceType, hits[n])]]]
  /\ UNCHANGED <<serviceVars, managerVars, dirWatcherVars, callVars, eventVars,
                 dirCallVars, serverVars, storeVars, searchVars, lookup, reply, indexVars, chunkVars>>

\* the caller has taken the results
RankedSettled ==
  /\ ranked # NoRanked
  /\ ranked' = NoRanked
  /\ UNCHANGED <<serviceVars, managerVars, dirWatcherVars, callVars, eventVars,
                 dirCallVars, serverVars, storeVars, searchVars, lookup, reply, indexVars, chunkVars>>

NextRanked ==
  \/ \E config \in RetrievalInputs :
       \E hits \in NearestFirst(StoreMetric(config.distanceType)) : RankedSearch(config, hits)
  \/ RankedSettled

SpecRanked == InitReady /\ [][NextRanked]_vars

\* C21: under every retrieval configuration a search that returns gives at
\* most config.k results, and their scores never increase along the list.
C21_AtMostKByScore ==
  ranked.outcome = "returned" =>
    /\ Len(ranked.results) <= ranked.config.k
    /\ \A i \in 1..Len(ranked.results) : \A j \in 1..Len(ranked.results) :
         i < j => ranked.results[i].score >= ranked.results[j].score

\* C22: every score of a search that returns lies between 0 and 1, whatever
\* raw distance the store reported.
C22_ScoreInUnitInterval ==
  ranked.outcome = "returned" =>
    \A i \in 1..Len(ranked.results) :
      /\ ranked.results[i].score >= 0
      /\ ranked.results[i].score <= ScoreOne

\* ------------------------------------------------------------------
\* getRetrievalConfig and its protocol-facing callers
\* ------------------------------------------------------------------

IntentTypes ==
  {"factual_retrieval", "conceptual_explanation", "comparative_analysis", "historical_context",
   "statistical_data", "methodological_inquiry", "application_examples"}

Config(key, indexType, k, distanceMetric, refineFactor) ==
  [kind |-> "config", key |-> key, indexType |-> indexType, k |-> k,
   distanceMetric |-> distanceMetric, refineFactor |-> refineFactor]

\* the object literal retrievalConfigs: its own properties
retrievalConfigs(key) ==
  CASE key = "factual_retrieval"      -> Config(key, "exact", 10, "cosine", 1)
    [] key = "conceptual_explanation" -> Config(key, "exact", 8, "cosine", 1)
    [] key = "comparative_analysis"   -> Config(key, "approximate", 15, "dot", 3)
    [] key = "historical_context"     -> Config(key, "approximate", 12, "cosine", 2)
    [] key = "statistical_data"       -> Config(key, "exact", 8, "euclidean", 1)
    [] key = "methodological_inquiry" -> Config(key, "approximate", 12, "cosine", 2)
    [] key = "application_examples"   -> Config(key, "exact", 10, "cosine", 1)

\* names every object literal inherits from Object.prototype
ObjectPrototype == {"constructor", "toString", "__proto__"}

\* retrievalConfigs[key]: an own property, else an inherited one, else undefined
PropertyLookup(key) ==
  IF key \in IntentTypes THEN retrievalConfigs(key)
  ELSE IF key \in ObjectPrototype THEN [NoConfig EXCEPT !.kind = "inherited", !.key = key]
  ELSE NoConfig

\* a missing argument is undefined, which as a property key reads "undefined"
PropertyKey(intent) == IF intent.given THEN intent.value ELSE "undefined"

Truthy(value) == value.kind # "undefined"

getRetrievalConfig(intent) ==
  LET found == PropertyLookup(PropertyKey(intent))
  IN IF Truthy(found) THEN found ELSE PropertyLookup("factual_retrieval")

IntentInputs ==
  {[given |-> FALSE, value |-> "undefined"]} \cup
  {[given |-> TRUE, value |-> v] : v \in IntentTypes \cup ObjectPrototype \cup {"", "unknown_intent"}}

\* relevantDocIds split at the commas and trimmed; "" splits into one empty id
DocIdInputs == { << <<>> >>, << <<"doc_a">> >>, << <<"doc_c">> >>, << <<"doc_a">>, <<"doc_b">> >>,
                 << <<"doc_c">>, <<>> >> }

\* .filter(Boolean)
FilterBoolean(ids) == SelectSeq(ids, LAMBDA id : id # <<>>)

Callers == {"retrieveContext", "document_qa"}

\* the call of getRetrievalConfig as the callers make it
LookupCall(intent) == [intent |-> intent, outcome |-> "returned", result |-> getRetrievalConfig(intent)]

\* a tool or prompt handler up to its await of similaritySearch
RetrieveStart(caller, intent, docIds) ==
  /\ reply = NoReply
  /\ lookup = NoLookup
  /\ IF caller = "retrieveContext"
     THEN /\ lookup' = LookupCall(intent)
          /\ reply' = [NoReply EXCEPT !.caller = caller, !.docIds = docIds, !.search = "pending"]
     ELSE IF ~(intent.given /\ intent.value \in IntentTypes)
     THEN /\ reply' = [NoReply EXCEPT !.caller = caller, !.docIds = docIds,
                                      !.text = "Error: Invalid intent type"]
          /\ lookup' = lookup
     ELSE IF Len(FilterBoolean(docIds)) = 0
     THEN /\ reply' = [NoReply EXCEPT !.caller = caller, !.docIds = FilterBoolean(docIds),
                                      !.isError = TRUE, !.text = "Error: No valid documents selected"]
          /\ lookup' = lookup
     ELSE /\ lookup' = LookupCall(intent)
          /\ reply' = [NoReply EXCEPT !.caller = caller, !.docIds = FilterBoolean(docIds),
                                      !.search = "pending"]
  /\ UNCHANGED <<serviceVars, managerVars, dirWatcherVars, callVars, eventVars,
                 dirCallVars, serverVars, storeVars, searchVars, ranked, indexVars, chunkVars>>

\* the rows similaritySearch finds for { documentIds: docIds }
Matching(docIds) ==
  LET text == WhereClause([NoFilters EXCEPT !.documentIds = Given(docIds)])
  IN {row \in SearchRows : Evaluate(text, row) = "true"}

\* the reply of retrieveContext once similaritySearch has settled
RetrieveContextReply(outcome) ==
  CASE outcome = "threw" -> [isError |-> TRUE, text |-> "Failed to retrieve document context"]
    [] outcome = "empty" -> [isError |-> TRUE, text |-> "No valid documents were found"]
    [] OTHER             -> [isError |-> FALSE, text |-> "contextualInformation"]

\* the reply of the document_qa prompt; an exception leaves the handler
DocumentQAReply(outcome) ==
  CASE outcome = "threw" -> [isError |-> TRUE, text |-> "exception"]
    [] outcome = "empty" -> [isError |-> TRUE, text |-> "No relevant context found"]
    [] OTHER             -> [isError |-> FALSE, text |-> "documentQA"]

\* similaritySearch settles and the handler builds its reply
RetrieveSearched(ok) ==
  /\ reply.search = "pending"
  /\ LET outcome == IF ~ok THEN "threw"
                    ELSE IF Matching(reply.docIds) = {} THEN "empty" ELSE "returned"
         built == IF reply.caller = "retrieveContext"
                  THEN RetrieveContextReply(outcome) ELSE DocumentQAReply(outcome)
     IN reply' = [reply EXCEPT !.search = outcome, !.isError = built.isError, !.text = built.text]
  /\ UNCHANGED <<serviceVars, managerVars, dirWatcherVars, callVars, eventVars,
                 dirCallVars, serverVars, storeVars, searchVars, ranked, lookup, indexVars, chunkVars>>

\* the reply has been sent
RetrieveSettled ==
  /\ reply # NoReply
  /\ reply.search # "pending"
  /\ reply' = NoReply
  /\ lookup' = NoLookup
  /\ UNCHANGED <<serviceVars, managerVars, dirWatcherVars, callVars, eventVars,
                 dirCallVars, serverVars, storeVars, searchVars, ranked, indexVars, chunkVars>>

NextRetrieve ==
  \/ \E caller \in Callers : \E intent \in IntentInputs : \E docIds \in DocIdInputs :
       RetrieveStart(caller, intent, docIds)
  \/ \E ok \in BOOLEAN : RetrieveSearched(ok)
  \/ RetrieveSettled

SpecRetrieve == InitReady /\ [][NextRetrieve]_vars

\* C23: getRetrievalConfig returns the entry of the intent when the intent is
\* one of the seven keys and the factual_retrieval entry for every other
\* intent and for a missing one; what it returns is a configuration with
\* k > 0 and refineFactor >= 1.
C23_LookupIsTotal ==
  lookup.outcome = "returned" =>
    /\ lookup.result = IF lookup.intent.given /\ lookup.intent.value \in IntentTypes
                       THEN retrievalConfigs(lookup.intent.value)
                       ELSE retrievalConfigs("factual_retrieval")
    /\ lookup.result.k > 0
    /\ lookup.result.refineFactor >= 1

\* C24: a search that matches no chunk returns an empty list, and the reply
\* of a protocol-facing caller to an empty result is not an error.
C24_EmptyIsNotAnError ==
  reply.search = "empty" => ~reply.isError

\* ------------------------------------------------------------------
\* EmbeddingService: embedText / embedTexts before initialize() completed
\* ------------------------------------------------------------------

\* an activation whose await of embeddingService.initialize() has returned
\* without throwing: the warm-up call came back, or the service was ready
PassedEmbedding(a) ==
  /\ attempts[a].pc \notin {"idle", "embedding"}
  /\ \A n \in 1..Len(attempts[a].trace) : attempts[a].trace[n] # Ev("fail", "embedding")

\* EmbeddingService.initialize() has completed successfully at least once
EmbeddingInitializeCompleted == \E a \in AttemptIds : PassedEmbedding(a)

\* C25: embedText and embedTexts called while EmbeddingService.initialize()
\* has not completed successfully (never called, warm-up still in flight, or
\* failed) are rejected as not initialized and make no call of the model.
C25_EmbedRejectedBeforeInitialize ==
  (lastCall.op \in EmbeddingOps /\ ~EmbeddingInitializeCompleted) =>
    (lastCall.result = "rejected" /\ lastCall.calls = {})

\* embedTexts rejected while the warm-up call of initialize() is in flight
C25_Witness ==
  /\ lastCall.op = "embedTexts"
  /\ lastCall.result = "rejected"
  /\ lastCall.calls = {}
  /\ \E a \in AttemptIds : attempts[a].pc = "embedding" /\ attempts[a].real

\* ------------------------------------------------------------------
\* The extension filter of the event handlers and of processFile
\* ------------------------------------------------------------------

\* the paths of the reported events: one allowed, one not
ReportedFiles == {"a.txt", "x.bin"}

\* bound on the events reported while a caller uses processFile
MaxReported == 2

\* chokidar reports an event
ReportEvent(ev, f) ==
  /\ Len(emitted) < MaxReported
  /\ Emit(ev, f)

NextFiltered ==
  \/ \E ev \in EventKinds, f \in ReportedFiles : ReportEvent(ev, f)
  \/ ProcessTimerExpired
  \/ DeleteTimerExpired
  \/ \E h \in 1..Len(handlers) : DeleteDone(h)
  \/ \E h \in 1..Len(handlers) : ProcessDone(h)
  \/ TickWatch
  \/ \E f \in Files : ClientProcessFile(f)
  \/ ClientProcessDone

SpecFiltered == InitWatch /\ [][NextFiltered]_vars

\* C26: a handler run for an event whose path has no allowed extension calls
\* neither processDocument nor deleteDocument, and processFile on such a
\* path makes no pipeline call.
C26_DisallowedNeverReachesPipeline ==
  /\ \A h \in 1..Len(handlers) :
       handlers[h].path \notin AllowedFiles =>
         (handlers[h].calls = <<>> /\ handlers[h].pc = "done")
  /\ (client.op = "processFile" /\ client.pc = "process") => client.arg \in AllowedFiles
  /\ (lastCall.op = "processFile" /\ lastCall.result # "performed") => lastCall.calls = {}

\* an unlink of x.bin has been handled, and processFile("x.bin") was skipped
C26_Witness ==
  /\ \E h \in 1..Len(handlers) :
       /\ handlers[h].path = "x.bin" /\ handlers[h].ev = "unlink"
       /\ handlers[h].calls = <<>>
  /\ \E h \in 1..Len(handlers) : handlers[h].path = "x.bin" /\ handlers[h].ev = "change"
  /\ lastCall.op = "processFile" /\ lastCall.result = "skipped"

\* ------------------------------------------------------------------
\* upsertChunks: batches, their order, and the optimize step
\* ------------------------------------------------------------------

CeilDiv(n, b) == (n + b - 1) \div b

\* the steps of the loop for n chunks: batch j covers the chunks with index
\* (j - 1) * BatchSize up to j * BatchSize - 1, is embedded, then appended
LoopPlan(n) ==
  [ m \in 1..(2 * CeilDiv(n, BatchSize)) |->
      LET j == (m + 1) \div 2
      IN [ e |-> IF m % 2 = 1 THEN "embed" ELSE "add",
           first |-> (j - 1) * BatchSize,
           size |-> Min(BatchSize, n - (j - 1) * BatchSize) ] ]

\* an execution that is inside upsertChunks or has returned from it
InUpsert(t) == tasks[t].pc \in {"embed", "add", "optimize", "done"} /\ tasks[t].op # "delete"

Appends(log) == Len(SelectSeq(log, LAMBDA ev : ev.e = "add"))

Optimizes(log) == Len(SelectSeq(log, LAMBDA ev : ev.e \in {"optimize", "optimizeFailed"}))

\* t is a processDocument call that was made first and has not been followed
OnlyCall(t) ==
  /\ t = 1 /\ tasks[t].op = "process"
  /\ \A u \in TaskIds \ {t} : tasks[u].pc = "idle"

\* C27: upsertChunks with n chunks follows the plan embed 1, append 1,
\* embed 2, append 2, ...: each append comes after the embeddings of its
\* batch and after the append before it, no embedding of the next batch
\* comes before it, a batch holds at most 50 chunks (BatchSize here), and a
\* call that got through its loop issued exactly ceil(n / 50) appends that
\* put every chunk into the table once, in chunk order.
C27_BatchesInOrder ==
  \A t \in TaskIds :
    InUpsert(t) =>
      LET n == Len(tasks[t].chunks)
          plan == LoopPlan(n)
          log == tasks[t].log
      IN /\ \A m \in 1..Len(log) : m <= Len(plan) => log[m] = plan[m]
         /\ \A m \in 1..Len(log) : log[m].size <= BatchSize
         /\ tasks[t].pc \in {"optimize", "done"} =>
              /\ Len(log) >= Len(plan)
              /\ Appends(log) = CeilDiv(n, BatchSize)
              /\ OnlyCall(t) => table = tasks[t].chunks
         /\ tasks[t].pc = "add" => Len(log) % 2 = 1
         /\ tasks[t].pc = "embed" => Len(log) % 2 = 0

\* a document of more than one batch has been stored by two appends
C27_Witness ==
  /\ OnlyCall(1)
  /\ tasks[1].pc = "done"
  /\ Len(tasks[1].chunks) = BatchSize + 1
  /\ Appends(tasks[1].log) = 2
  /\ table = tasks[1].chunks

\* C28: optimize is attempted exactly once, after the last append; when it
\* fails upsertChunks still returns and the rows stay in the table; when an
\* embedding or an append fails upsertChunks throws, without optimizing.
C28_OptimizeOnceAndNonFatal ==
  \A t \in TaskIds :
    LET log == tasks[t].log
    IN /\ (InUpsert(t) /\ tasks[t].pc = "done") =>
            /\ Optimizes(log) = 1
            /\ log[Len(log)].e \in {"optimize", "optimizeFailed"}
            /\ Len(log) = 2 * CeilDiv(Len(tasks[t].chunks), BatchSize) + 1
            /\ OnlyCall(t) => table = tasks[t].chunks
       /\ (InUpsert(t) /\ tasks[t].pc # "done") => Optimizes(log) = 0
       /\ \A m \in 1..Len(log) :
            log[m].e \in {"embedFailed", "addFailed"} =>
              /\ tasks[t].pc = "failed"
              /\ m = Len(log)
              /\ Optimizes(log) = 0

\* optimize failed after both batches were appended, and the call returned
C28_Witness ==
  /\ OnlyCall(1)
  /\ tasks[1].pc = "done"
  /\ tasks[1].log[Len(tasks[1].log)].e = "optimizeFailed"
  /\ Len(table) = BatchSize + 1

\* ------------------------------------------------------------------
\* createVectorIndexInternal: when an index is built, and its parameters
\* ------------------------------------------------------------------

\* row counts around the threshold and around the ends of the clamp
RowCounts == {0, 255, 256, 257, 288, 306, 307, 9999, 10000, 10200}

\* embedding dimensions: below 24, multiples of 24, in between, the default
\* 384, and beyond 16 * 24
Dimensions == {12, 24, 36, 40, 60, 384, 400, 768}

\* Math.round(Math.sqrt(n))
RoundSqrt(n) ==
  LET r == CHOOSE r \in 0..101 : r * r <= n /\ n < (r + 1) * (r + 1)
  IN IF n <= r * r + r THEN r ELSE r + 1

\* Math.floor(Math.sqrt(n))
FloorSqrt(n) == CHOOSE r \in 0..101 : r * r <= n /\ n < (r + 1) * (r + 1)

\* Math.round(d / q)
RoundDiv(d, q) == (2 * d + q) \div (2 * q)

\* Math.floor(d / q)
FloorDiv(d, q) == d \div q

\* Math.max(4, Math.min(Math.floor(Math.sqrt(rowCount)), 100))
NumPartitions(rowCount) == Max(4, Min(FloorSqrt(rowCount), 100))

\* Math.min(16, Math.max(1, Math.floor(dimension / 24)))
NumSubVectors(dimension) == Min(16, Max(1, FloorDiv(dimension, 24)))

\* "if (rowCount > 256)"
EnoughRows(rowCount) == rowCount > 256

\* createVectorIndexInternal on a table of rowCount rows: countRows or
\* createIndex may throw, which the routine rethrows
CreateVectorIndex(rowCount, dimension, ok) ==
  /\ index = NoIndex
  /\ StoreGate
  /\ index' =
       IF ~ok
       THEN [NoIndex EXCEPT !.rowCount = rowCount, !.dimension = dimension, !.outcome = "threw"]
       ELSE IF EnoughRows(rowCount)
       THEN [rowCount |-> rowCount, dimension |-> dimension, outcome |-> "returned",
             built |-> TRUE, numPartitions |-> NumPartitions(rowCount),
             numSubVectors |-> NumSubVectors(dimension), distanceType |-> "cosine"]
       ELSE [NoIndex EXCEPT !.rowCount = rowCount, !.dimension = dimension,
                            !.outcome = "returned"]
  /\ UNCHANGED <<serviceVars, managerVars, dirWatcherVars, callVars, eventVars,
                 dirCallVars, serverVars, storeVars, searchVars, retrievalVars, chunkVars>>

\* the caller has seen the outcome
IndexSettled ==
  /\ index # NoIndex
  /\ index' = NoIndex
  /\ UNCHANGED <<serviceVars, managerVars, dirWatcherVars, callVars, eventVars,
                 dirCallVars, serverVars, storeVars, searchVars, retrievalVars, chunkVars>>

NextIndex ==
  \/ \E rowCount \in RowCounts, dimension \in Dimensions, ok \in BOOLEAN :
       CreateVectorIndex(rowCount, dimension, ok)
  \/ IndexSettled

SpecIndex == InitReady /\ [][NextIndex]_vars

\* C29: the routine builds a vector index exactly when the table holds at
\* least 256 rows, and the index it builds is the IVF-PQ index with the
\* cosine metric.
C29_IndexFromThreshold ==
  index.outcome = "returned" =>
    /\ index.built <=> index.rowCount >= 256
    /\ index.built => index.distanceType = "cosine"

Clamp(x, lo, hi) == Max(lo, Min(x, hi))

\* C30: an index is built with clamp(round(sqrt(rowCount)), 4, 100)
\* partitions and clamp(round(d / 24), 1, 16) sub-vectors.
C30_RoundedParameters ==
  (index.outcome = "returned" /\ index.built) =>
    /\ index.numPartitions = Clamp(RoundSqrt(index.rowCount), 4, 100)
    /\ index.numSubVectors = Clamp(RoundDiv(index.dimension, 24), 1, 16)

\* C30 amended: an index is built with clamp(floor(sqrt(rowCount)), 4, 100)
\* partitions and clamp(floor(d / 24), 1, 16) sub-vectors: the square root
\* and the quotient are rounded down, not to the nearest integer.
C30_FlooredParameters ==
  (index.outcome = "returned" /\ index.built) =>
    LET p == index.numPartitions
        v == index.numSubVectors
    IN /\ p \in 4..100
       /\ p > 4 => p * p <= index.rowCount
       /\ p < 100 => index.rowCount < (p + 1) * (p + 1)
       /\ v \in 1..16
       /\ v > 1 => v * 24 <= index.dimension
       /\ v < 16 => index.dimension < (v + 1) * 24

\* an index built where rounding down and rounding to nearest differ in
\* both parameters
C30_Witness ==
  /\ index.outcome = "returned" /\ index.built
  /\ index.rowCount = 307 /\ index.numPartitions = 17
  /\ index.dimension = 40 /\ index.numSubVectors = 1

\* ------------------------------------------------------------------
\* DocumentProcessor.chunkDocument: numbering and offsets of the chunks
\* ------------------------------------------------------------------

\* bound on the segments (loader documents) of one file
MaxSegments == 3

\* a value of splitDoc.metadata that is missing, and one that is there
NoMeta == [given |-> FALSE, value |-> 0]

Meta(value) == [given |-> TRUE, value |-> value]

\* a piece the splitter cut out of a segment: its text length and the
\* startIndex / endIndex its metadata carries, if any
Split(length, startIndex, endIndex) ==
  [length |-> length, startIndex |-> startIndex, endIndex |-> endIndex]

\* segments as the loaders and the splitter deliver them: a segment of four
\* characters that yields no piece, one piece, two overlapping pieces, or
\* pieces whose metadata carries offsets into the segment
Segments ==
  { [length |-> 4, splits |-> <<>>],
    [length |-> 4, splits |-> <<Split(4, NoMeta, NoMeta)>>],
    [length |-> 4, splits |-> <<Split(3, NoMeta, NoMeta), Split(2, NoMeta, NoMeta)>>],
    [length |-> 4, splits |-> <<Split(2, Meta(0), Meta(2)), Split(2, Meta(2), Meta(4))>>] }

DocumentInputs == UNION {[1..n -> Segments] : n \in 1..MaxSegments}

\* value || fallback on numbers: 0 and undefined are falsy
OrElse(meta, fallback) == IF meta.given /\ meta.value # 0 THEN meta.value ELSE fallback

\* a counter that starts again with every segment
RestartIndex(chunkIndex, produced) == 0

\* chunkIndex++ once per piece: the counter is declared outside the loop
\* over the segments
AdvanceIndex(chunkIndex, produced) == chunkIndex + produced

\* the body of the inner loop: allChunks.push({...})
MakeChunk(documentId, base, segment, split, chunkIndex) ==
  [ chunkId |-> <<documentId, "_chunk", chunkIndex>>,
    documentId |-> documentId,
    chunkIndex |-> chunkIndex,
    filePath |-> base.filePath,
    fileHash |-> base.fileHash,
    segment |-> segment,
    startIndex |-> OrElse(split.startIndex, 0),
    endIndex |-> OrElse(split.endIndex, split.length) ]

RECURSIVE ChunksFrom(_, _, _, _, _)
\* the loop over docs from segment i on, with the counter at chunkIndex
ChunksFrom(docs, documentId, base, i, chunkIndex) ==
  IF i > Len(docs) THEN <<>>
  ELSE LET splits == docs[i].splits
       IN [k \in 1..Len(splits) |->
             MakeChunk(documentId, base, i, splits[k], chunkIndex + k - 1)]
          \o ChunksFrom(docs, documentId, base, i + 1, AdvanceIndex(chunkIndex, Len(splits)))

BaseMetadata == [filePath |-> "a.txt", fileHash |-> "md5_of_a"]

\* chunkDocument(docs, documentId, baseMetadata): the splitter may throw,
\* which chunkDocument rethrows
ChunkDocumentCall(docs, ok) ==
  /\ chunked = NoChunked
  /\ ProcessorGate
  /\ chunked' = IF ok
                THEN [docs |-> docs, outcome |-> "returned",
                      chunks |-> ChunksFrom(docs, GenerateDocumentId(BaseMetadata.filePath),
                                            BaseMetadata, 1, 0)]
                ELSE [docs |-> docs, outcome |-> "threw", chunks |-> <<>>]
  /\ UNCHANGED <<serviceVars, managerVars, dirWatcherVars, callVars, eventVars,
                 dirCallVars, serverVars, storeVars, searchVars, retrievalVars, indexVars>>

\* processDocument has taken the chunks, or the error
ChunkedSettled ==
  /\ chunked # NoChunked
  /\ chunked' = NoChunked
  /\ UNCHANGED <<serviceVars, managerVars, dirWatcherVars, callVars, eventVars,
                 dirCallVars, serverVars, storeVars, searchVars, retrievalVars, indexVars>>

NextChunk ==
  \/ \E docs \in DocumentInputs, ok \in BOOLEAN : ChunkDocumentCall(docs, ok)
  \/ ChunkedSettled

SpecChunk == InitReady /\ [][NextChunk]_vars

RECURSIVE SplitCount(_)
SplitCount(docs) ==
  IF Len(docs) = 0 THEN 0 ELSE Len(docs[1].splits) + SplitCount(Tail(docs))

\* C31: the chunks of one chunkDocument call are numbered 0..n-1 in the
\* order they were produced, through all segments; each chunkId is the
\* documentId, "_chunk" and the chunkIndex; documentId, filePath and fileHash
\* are the same on every chunk; and startIndex <= endIndex <= the length of
\* the chunk's segment.
C31_ChunksNumberedThrough ==
  chunked.outcome = "returned" =>
    LET chunks == chunked.chunks
        id == GenerateDocumentId(BaseMetadata.filePath)
    IN /\ Len(chunks) = SplitCount(chunked.docs)
       /\ \A k \in 1..Len(chunks) :
            /\ chunks[k].chunkIndex = k - 1
            /\ chunks[k].chunkId = <<id, "_chunk", k - 1>>
            /\ chunks[k].documentId = id
            /\ chunks[k].filePath = BaseMetadata.filePath
            /\ chunks[k].fileHash = BaseMetadata.fileHash
            /\ chunks[k].startIndex <= chunks[k].endIndex
            /\ chunks[k].endIndex <= chunked.docs[chunks[k].segment].length
       /\ \A j, k \in 1..Len(chunks) : j < k => chunks[j].segment <= chunks[k].segment

\* three segments, the middle one empty, chunked into four chunks
C31_Witness ==
  /\ chunked.outcome = "returned"
  /\ Len(chunked.docs) = 3
  /\ Len(chunked.docs[1].splits) = 2
  /\ Len(chunked.docs[2].splits) = 0
  /\ Len(chunked.chunks) = 4
  /\ chunked.chunks[4].segment = 3
  /\ chunked.chunks[4].startIndex = 2

\* ------------------------------------------------------------------
\* upsertChunks for one document beside deleteDocument for another
\* ------------------------------------------------------------------

\* the table after b.txt and a third file have been processed
StoredRows == ChunkDocument("b.txt", "original") \o ChunkDocument("c.txt", "original")

\* execution 1 is processDocument("a.txt"), whose upsertChunks appends the
\* chunks of a.txt; execution 2 is deleteDocument("b.txt"); either may
\* start first and their steps interleave
PairStart(t) ==
  IF t = 1 THEN StartTask(1, "process", "a.txt") ELSE StartTask(2, "delete", "b.txt")

NextPair ==
  \/ \E t \in {1, 2} : PairStart(t)
  \/ \E t \in TaskIds, ok \in BOOLEAN : ProcessLoad(t, ok)
  \/ \E t \in TaskIds, ok \in BOOLEAN : UpsertEmbed(t, ok)
  \/ \E t \in TaskIds, ok \in BOOLEAN : UpsertAdd(t, ok)
  \/ \E t \in TaskIds, ok \in BOOLEAN : UpsertOptimize(t, ok)
  \/ \E t \in TaskIds, ok \in BOOLEAN : DeleteCount(t, ok)
  \/ \E t \in TaskIds, ok \in BOOLEAN : DeleteRows(t, ok)
  \/ FileChange("a.txt")

SpecPair == InitReadyWith(StoredRows) /\ [][NextPair]_vars

\* C32: when an upsertChunks for document A and a deleteDocument for
\* another document B have both returned, however their steps interleaved,
\* the table is what running them one after the other gives: the rows of
\* the other documents as they were, no row of B, every chunk of A, and
\* deleteDocument has returned the number of rows B had.
C32_DisjointCallsCommute ==
  (tasks[1].pc = "done" /\ tasks[2].pc = "done") =>
    /\ table = RowsNotOf(StoredRows, GenerateDocumentId("b.txt")) \o tasks[1].chunks
    /\ tasks[2].result = Len(RowsOf(StoredRows, GenerateDocumentId("b.txt")))
    /\ RowsOf(table, GenerateDocumentId("b.txt")) = <<>>

\* both calls have returned: the upsert appended two batches, the delete
\* removed the one row of b.txt
C32_Witness ==
  /\ tasks[1].pc = "done" /\ tasks[2].pc = "done"
  /\ Len(tasks[1].chunks) = BatchSize + 1
  /\ tasks[2].result = 1
  /\ Len(table) = BatchSize + 2

\* ------------------------------------------------------------------
\* consistency of the ReadinessManager's flags and status
\* ------------------------------------------------------------------

\* C33: in every reachable state of the manager isInitialized() and
\* hasInitializationFailed() are not both true, status.isReady equals
\* isInitialized(), and initializationState is 'complete' exactly when
\* isInitialized() and 'failed' exactly when hasInitializationFailed().
C33_FlagsAgreeWithStatus ==
  /\ ~(isReady /\ initializationFailed)
  /\ status.isReady = isReady
  /\ (status.initializationState = "complete") <=> isReady
  /\ (status.initializationState = "failed") <=> initializationFailed

\* C34: after reset() the manager stays in its initial state (pending,
\* not failed, not ready, no service recorded) until initialize() is called
\* again: no step of an attempt started before the reset changes it.
C34_ResetHoldsUntilInitialize ==
  [][ (ManagerInitial /\ ~(\E dirs \in DirLists : Initialize(dirs))) =>
        ManagerInitial'
    ]_vars

\* ------------------------------------------------------------------
\* watchDirectory calls that are not awaited one before the next
\* ------------------------------------------------------------------

\* callers enter watchDirectory while earlier calls are still awaiting
\* fs.promises.access or watcher.close()
NextDirsConcurrent ==
  \/ \E c \in DirCallIds, dir \in Dirs : DirWatchStart(c, dir)
  \/ \E c \in DirCallIds : DirAccessDone(c)
  \/ \E c \in DirCallIds : DirCloseDone(c)

SpecDirsConcurrent == InitReady /\ [][NextDirsConcurrent]_vars

\* C35: when the watchDirectory calls made so far have all completed,
\* however their steps interleaved, at most one chokidar watcher is open,
\* and every watcher that was opened and that DirectoryWatcher no longer
\* refers to has been closed.
C35_OneOpenWatcher ==
  NoDirCallRunning =>
    /\ Cardinality(OpenWatchers) <= 1
    /\ \A w \in OpenWatchers : w = watcherRef

\* ------------------------------------------------------------------
\* stopWatching() while the watcher's debounced handlers are pending
\* ------------------------------------------------------------------

\* the running watcher of d1 with a caller of stopWatching(); the
\* debounced functions are the ones setupEventHandlers made for that watcher
NextStop ==
  \/ \E ev \in EventKinds, f \in AllowedFiles : ReportEvent(ev, f)
  \/ ProcessTimerExpired
  \/ DeleteTimerExpired
  \/ \E h \in 1..Len(handlers) : DeleteDone(h)
  \/ \E h \in 1..Len(handlers) : ProcessDone(h)
  \/ TickWatch
  \/ \E c \in DirCallIds : AwaitedStopCall(c)
  \/ \E c \in DirCallIds : DirStopDone(c)

SpecStop == InitWatch /\ [][NextStop]_vars

\* the processDocument and deleteDocument calls a handler run has started
StartedCalls(r) ==
  Cardinality({i \in 1..Len(r.calls) : r.calls[i] \in {"processDocument", "deleteDocument"}})

RECURSIVE StartedIn(_)
StartedIn(runs) ==
  IF runs = <<>> THEN 0 ELSE StartedCalls(Head(runs)) + StartedIn(Tail(runs))

\* stopWatching() has resolved: its close() returned and the fields are cleared
StopResolved ==
  /\ \E c \in DirCallIds : dirCalls[c].op = "stop" /\ dirCalls[c].pc = "done"
  /\ ~isWatching
  /\ ~chokidars[1].open

\* C36: once stopWatching() has resolved, the closed watcher starts no
\* further processDocument or deleteDocument call, not even for an event it
\* received before the stop whose debounce delay had not yet elapsed.
C36_NoCallAfterStop ==
  [][ StopResolved => StartedIn(handlers') = StartedIn(handlers) ]_vars

\* ------------------------------------------------------------------
\* the change handler: deleteDocument, then processDocument
\* ------------------------------------------------------------------

\* C37: an execution of the change handler for p moves on to
\* processDocument(p) only from a deleteDocument(p) that succeeded (its
\* delete removed the rows of p, or its count found none); when
\* deleteDocument(p) throws, the execution ends there, processDocument is
\* not started and the table is left as it was.
C37_ProcessOnlyAfterDelete ==
  [][ \A t \in TaskIds : tasks[t].op = "change" =>
        LET id == GenerateDocumentId(tasks[t].path)
        IN /\ (tasks[t].pc = "delete" /\ tasks'[t].pc = "load") =>
                table' = RowsNotOf(table, id)
           /\ (tasks[t].pc = "count" /\ tasks'[t].pc = "load") =>
                (RowsOf(table, id) = <<>> /\ table' = table)
           /\ (tasks[t].pc \in {"count", "delete"} /\
               tasks'[t].pc \notin {"count", "delete", "load"}) =>
                (tasks'[t].pc = "failed" /\ table' = table)
           /\ tasks[t].pc = "failed" => tasks'[t].pc = "failed"
    ]_vars

\* b.txt was processed, then its change handler ran and deleteDocument
\* threw: the row of b.txt is still stored
C37_Witness ==
  /\ tasks[1].op = "process" /\ tasks[1].path = "b.txt" /\ tasks[1].pc = "done"
  /\ tasks[2].op = "change" /\ tasks[2].path = "b.txt" /\ tasks[2].pc = "failed"
  /\ files["b.txt"] = "original"
  /\ table = ChunkDocument("b.txt", "original")

\* ------------------------------------------------------------------
\* the timers of waitForReady
\* ------------------------------------------------------------------

\* C38: once a waitForReady call has settled (resolved, rejected with the
\* failure, or rejected by the timeout) none of its timers is scheduled:
\* the polling has stopped and the timeout timer is cleared.
C38_SettledLeavesNoTimer ==
  waiter.outcome \in {"resolved", "failed", "timeout"} =>
    (~waiter.timeoutArmed /\ ~waiter.pollArmed)

\* ------------------------------------------------------------------
\* LanceDBService over a closed LanceDBConnector
\* ------------------------------------------------------------------

\* the operations of LanceDBService that use the table handle
TableOps == {"upsertChunks", "deleteDocument", "similaritySearch"}

\* C39: whenever LanceDBService.isInitialized() is true the LanceDBConnector
\* is initialized with an open connection; once the connector has been
\* closed (by close() or by terminate()), upsertChunks, deleteDocument and
\* similaritySearch are rejected as not initialized.
C39_ServiceReadyImpliesConnection ==
  /\ dbIsReady => connectorIsReady
  /\ ~connectorIsReady => \A op \in TableOps : ~Gate(op)
====
